---- MODULE Spec2Model ----
(***************************************************************************)
(* Fee-and-membership consistency core of the student controller:          *)
(* MARK_FEE_PAYMENT_STATUS, IMPOSE_LATE_FINE, UPDATE_STUDENT and           *)
(* REGISTER_STUDENT of src/src/controllers/student.controller.js, run as   *)
(* concurrent requests, each inside one MongoDB session transaction.       *)
(***************************************************************************)
EXTENDS Integers, Sequences, FiniteSets, Bags, TLC

VARIABLES
    student,     \* Student collection: id -> <<>> or <<document>>
    class,       \* StudentAcademicClass collection: id -> document
    subject,     \* Subject collection: id -> document
    feePayment,  \* FeePayment collection: a bag of documents
    pc,          \* per request slot: position in its handler
    req,         \* per request slot: req.body of the request being served
    loc,         \* per request slot: the handler's local constants
    tx,          \* per request slot: state of the session's transaction
    stale,       \* per request slot: fee keys committed by others since its snapshot
    ops,         \* per request slot: FeePayment writes buffered in its transaction
    err,         \* per request slot: the error caught by the catch block
    log,         \* per request slot: session calls and responses of its last request
    workload     \* the requests the environment sends in this behaviour

vars ==
    <<student, class, subject, feePayment, pc, req, loc, tx, stale, ops, err, log,
      workload>>

-----------------------------------------------------------------------------
(* Bounds and finite input domains *)

MaxBulk ==
    2

Procs ==
    {"r1", "r2"}

StudentIds ==
    {"s1", "s2", "s3"}

ClassIds ==
    {"cA", "cB"}

SubjectIds ==
    {"m1", "m2"}

Emails ==
    {"e1", "e2", "e3"}

MonthNames ==
    <<"January", "February">>

Months ==
    {MonthNames[i] : i \in DOMAIN MonthNames}

Statuses ==
    {"paid", "not paid"}

None ==
    <<>>

Some(v) ==
    <<v>>

FeeChoices ==
    {None, Some(500)}

LateFineChoices ==
    {None, Some(0), Some(100)}

MonthLists ==
    UNION {[1..n -> Months] : n \in 1..MaxBulk}

\* The subject lists a request carries: every list without a repeated
\* subject, and one that names a subject twice.
SubjectLists ==
    {<<>>, <<"m1", "m1">>} \cup {<<x>> : x \in SubjectIds}
        \cup {<<xy[1], xy[2]>> :
                  xy \in {z \in SubjectIds \X SubjectIds : z[1] # z[2]}}

\* The workloads explored. Each fixes the request slots that receive fine
\* requests, mark requests, bulk mark requests and student-directory
\* requests (registration, update), the students the fee requests name,
\* the students whose class has been deleted (their studentClass names no
\* class), the
\* months each slot's requests name, whether a bulk request names a month
\* twice, the types of req.body.months, whether callers pass
\* isAdvancePayment, the calendar months in which requests arrive, the fee
\* policy the classes start with and whether it is edited meanwhile,
\* whether the store refuses commits, and for each slot the e-mails and
\* classes of its registrations and the students, names, classes and
\* subject lists of its updates.
\*   ledger: fee requests served one at a time on one month, with every
\*           input, for a student with a class, a student whose class is
\*           gone and an id that names no student, fee policies edited in
\*           between;
\*   race:   a fine or single-month mark request on one month served
\*           concurrently with any fee request on two months;
\*   directory: registrations and updates of students served one at a time;
\*   enrol:  two registrations into one class, or two updates of one
\*           student (its subjects, its name, its class), served
\*           concurrently.
NoDirectoryRequests ==
    [emails |-> [p \in Procs |-> {}], registerClasses |-> {},
     updateStudents |-> {}, updateNames |-> [p \in Procs |-> {}],
     updateClasses |-> {}, updateSubjects |-> [p \in Procs |-> {}]]

NoFeeRequests ==
    [slots |-> {}, markSlots |-> {}, bulkSlots |-> {}, students |-> {},
     orphans |-> {},
     months |-> [p \in Procs |-> {}], repeats |-> FALSE, monthsTypes |-> {},
     advance |-> {}, nows |-> {}, policy |-> <<Some(500), Some(100)>>,
     policyEdits |-> FALSE]

Workloads ==
    {[name |-> "ledger", slots |-> {"r1"}, markSlots |-> {"r1"},
      directorySlots |-> {},
      bulkSlots |-> {"r1"}, students |-> {"s1", "s2", "s3"},
      orphans |-> {"s3"},
      months |-> [p \in Procs |-> {"February"}], repeats |-> TRUE,
      monthsTypes |-> {"array", "string", "other"},
      advance |-> BOOLEAN, nows |-> {1, 2},
      policy |-> <<None, None>>, policyEdits |-> TRUE,
      commitFailures |-> TRUE] @@ NoDirectoryRequests,
     [name |-> "race", slots |-> Procs, markSlots |-> Procs,
      directorySlots |-> {},
      bulkSlots |-> {"r1"}, students |-> {"s1"},
      orphans |-> {},
      months |-> [p \in Procs |-> IF p = "r1" THEN Months ELSE {"February"}],
      repeats |-> FALSE,
      monthsTypes |-> {"array", "string"},
      advance |-> {FALSE}, nows |-> {2},
      policy |-> <<Some(500), Some(100)>>, policyEdits |-> FALSE,
      commitFailures |-> FALSE] @@ NoDirectoryRequests,
     [name |-> "directory", directorySlots |-> {"r1"},
      commitFailures |-> TRUE,
      emails |-> [p \in Procs |-> {"e1", "e2"}],
      registerClasses |-> ClassIds \cup {"cX"},
      updateStudents |-> {"s1", "s2"},
      updateNames |-> [p \in Procs |-> {None}],
      updateClasses |-> {None} \cup {Some(c) : c \in ClassIds},
      updateSubjects |-> [p \in Procs |->
                             {None} \cup {Some(l) : l \in SubjectLists}]]
         @@ NoFeeRequests,
     [name |-> "enrol", directorySlots |-> Procs,
      commitFailures |-> FALSE,
      emails |-> [p \in Procs |-> IF p = "r1" THEN {"e2"} ELSE {"e2", "e3"}],
      registerClasses |-> {"cA"},
      updateStudents |-> {"s1"},
      updateNames |-> [p \in Procs |->
                          IF p = "r1" THEN {None} ELSE {Some("b")}],
      updateClasses |-> {None, Some("cB")},
      updateSubjects |-> [p \in Procs |->
                             IF p = "r1" THEN {Some(<<"m1">>)} ELSE {None}]]
         @@ NoFeeRequests}

-----------------------------------------------------------------------------
(* Errors and responses *)

\* new ApiError(code, message): the status code is kept in error.code,
\* which the catch blocks read as the HTTP status.
ApiError(code, message) ==
    [name |-> "ApiError", code |-> Some(code), message |-> message]

\* The store's errors inside a transaction: a write conflict with a
\* concurrent transaction, and the duplicate-key signal of a unique index.
WriteConflictError ==
    [name |-> "MongoServerError", code |-> Some(112), message |-> "WriteConflict"]

\* The store's duplicate-key error; keyValue holds the fields of the
\* violated unique index, in the order of the index.
DuplicateKey(fields) ==
    [name |-> "MongoServerError", code |-> Some(11000),
     message |-> "E11000 duplicate key", keyValue |-> fields]

\* On the unique index of the FeePayment collection.
DuplicateKeyError ==
    DuplicateKey(<<"student", "month">>)

\* On the unique index of Student.email.
DuplicateEmailError ==
    DuplicateKey(<<"email">>)

\* The store refuses a commit: the transaction is gone (it expired, or the
\* store dropped it) and none of its writes is applied.
CommitError ==
    [name |-> "MongoServerError", code |-> Some(251), message |-> "NoSuchTransaction"]

\* error.code || 500
StatusOf(error) ==
    IF error.code = None \/ error.code = Some(0) THEN 500 ELSE error.code[1]

-----------------------------------------------------------------------------
(* FeePayment documents and the update operators of the store *)

Get(patch, field, default) ==
    IF field \in DOMAIN patch THEN patch[field] ELSE default

NoFields ==
    [f \in {} |-> FALSE]

\* Values a FeePayment document gets on insert for the fields the update
\* object does not name.
FeePaymentDefaults ==
    [status |-> "not paid", baseAmount |-> 0, lateFineAmount |-> 0,
     lateFine |-> FALSE, finePaid |-> FALSE, isAdvancePayment |-> FALSE]

FeeDoc(studentId, month, f) ==
    [student |-> studentId, month |-> month, status |-> f.status,
     baseAmount |-> f.baseAmount, lateFineAmount |-> f.lateFineAmount,
     lateFine |-> f.lateFine, finePaid |-> f.finePaid,
     isAdvancePayment |-> f.isAdvancePayment]

\* $set then $inc on a document: a field named in $set takes its value, a
\* field named in $inc is increased, every other field keeps its value.
SetAndInc(d, u) ==
    LET fld(f) == Get(u.set, f, d[f])
    IN  [status           |-> fld("status"),
         baseAmount       |-> fld("baseAmount") + Get(u.inc, "baseAmount", 0),
         lateFineAmount   |-> fld("lateFineAmount") + Get(u.inc, "lateFineAmount", 0),
         lateFine         |-> fld("lateFine"),
         finePaid         |-> fld("finePaid"),
         isAdvancePayment |-> fld("isAdvancePayment")]

\* Faulty variant of the update: $setOnInsert is applied to a matched
\* document as well.
ApplyUpdate_SeedsAgain(d, u) ==
    FeeDoc(d.student, d.month,
           SetAndInc(d, [u EXCEPT !.set = @ @@ u.setOnInsert]))

\* The update applied to a document the filter matched: $setOnInsert is
\* ignored.
ApplyUpdate(d, u) ==
    FeeDoc(d.student, d.month, SetAndInc(d, u))

\* The document an upsert inserts when the filter matched nothing: the
\* filter's fields, $setOnInsert, $set and $inc, over the schema defaults.
\* A field named in $inc starts from 0 and gets no default.
InsertDoc(studentId, month, u) ==
    LET seeded == [f \in DOMAIN FeePaymentDefaults |->
                      IF f \in DOMAIN u.inc
                      THEN 0
                      ELSE Get(u.setOnInsert, f, FeePaymentDefaults[f])]
    IN  FeeDoc(studentId, month, SetAndInc(seeded, u))

DocsOf(store, studentId, month) ==
    {d \in BagToSet(store) : d.student = studentId /\ d.month = month}

\* FeePayment.findOne({student, month})
FindOne(store, studentId, month) ==
    IF DocsOf(store, studentId, month) = {}
    THEN None
    ELSE Some(CHOOSE d \in DocsOf(store, studentId, month) : TRUE)

\* One buffered write applied to a collection: an insert adds a document,
\* an update replaces the document the filter matches.
ApplyOp(store, op) ==
    LET found == FindOne(store, op.student, op.month)
    IN  IF op.path = "insert"
        THEN store (+) SetToBag({InsertDoc(op.student, op.month, op.update)})
        ELSE IF found = None
        THEN store
        ELSE (store (-) SetToBag({found[1]}))
                 (+) SetToBag({ApplyUpdate(found[1], op.update)})

RECURSIVE ApplyOps(_, _)
ApplyOps(store, writes) ==
    IF writes = <<>>
    THEN store
    ELSE ApplyOps(ApplyOp(store, Head(writes)), Tail(writes))

-----------------------------------------------------------------------------
(* The session transaction of a request *)

Key(studentId, month) ==
    <<studentId, month>>

StaleKeys(p) ==
    {e.key : e \in stale[p]}

\* Whether the FeePayment collection as request p's transaction sees it
\* holds a document for the key: its own writes, else the snapshot of its
\* first read (for a key committed by others since then, what the
\* snapshot remembers; for any other key, the committed collection).
InView(p, studentId, month) ==
    \/ \E i \in DOMAIN ops[p] :
          ops[p][i].student = studentId /\ ops[p][i].month = month
    \/ IF Key(studentId, month) \in StaleKeys(p)
       THEN [key |-> Key(studentId, month), existed |-> TRUE] \in stale[p]
       ELSE FindOne(feePayment, studentId, month) # None

WrittenKeys(p) ==
    {Key(ops[p][i].student, ops[p][i].month) : i \in DOMAIN ops[p]}

\* The key was written by a transaction that committed after p's snapshot,
\* or is held by the uncommitted write of another open transaction.
TouchedByOthers(p, studentId, month) ==
    \/ Key(studentId, month) \in StaleKeys(p)
    \/ \E q \in Procs \ {p} :
          tx[q] /\ Key(studentId, month) \in WrittenKeys(q)

\* Faulty variant: concurrent transactions never conflict on a document.
WriteConflict_Never(p, studentId, month) ==
    FALSE

\* A write issued with { session }: updating a document another
\* transaction changed since the snapshot fails with a write conflict.
WriteConflict(p, studentId, month) ==
    TouchedByOthers(p, studentId, month)

\* Faulty variant: the collection has no unique index.
UniqueIndexViolation_Never(p, studentId, month) ==
    FALSE

\* The unique index on (student, month) of the FeePayment collection:
\* inserting a key that is in the collection, or that another transaction
\* inserted, is refused.
UniqueIndexViolation(p, studentId, month) ==
    InView(p, studentId, month) \/ TouchedByOthers(p, studentId, month)

\* Faulty variant of the abort: the buffered writes are kept.
AbortTransaction_Keeps(store, writes) ==
    ApplyOps(store, writes)

\* session.abortTransaction(): the buffered writes are dropped, the
\* committed collection stays as it is.
AbortTransaction(store, writes) ==
    store

\* session.commitTransaction(): the buffered writes become visible at once.
CommitTransaction(store, writes) ==
    ApplyOps(store, writes)

\* What the other open transactions must remember of the keys p commits.
StaleAfterCommit(p) ==
    [q \in Procs |->
        IF q = p \/ ~tx[q]
        THEN stale[q]
        ELSE stale[q] \cup
             {[key |-> k, existed |-> FindOne(feePayment, k[1], k[2]) # None] :
                 k \in WrittenKeys(p) \ StaleKeys(q)}]

\* FeePayment upsert { student, month } inside the transaction: decides
\* on the transaction's view whether it inserts or updates, and fails when
\* the store refuses the write.
UpsertPath(p, studentId, month) ==
    IF InView(p, studentId, month) THEN "update" ELSE "insert"

\* Faulty variant of the store's checks on an upsert: no write is refused.
UpsertErrors_None(p, studentId, month) ==
    {}

UpsertErrors(p, studentId, month) ==
    IF UpsertPath(p, studentId, month) = "update"
    THEN IF WriteConflict(p, studentId, month) THEN {WriteConflictError} ELSE {}
    ELSE IF UniqueIndexViolation(p, studentId, month)
         THEN {WriteConflictError, DuplicateKeyError}
         ELSE {}

UpsertOp(p, studentId, month, u) ==
    [path |-> UpsertPath(p, studentId, month), student |-> studentId,
     month |-> month, update |-> u]

-----------------------------------------------------------------------------
(* Class/Subject fee policy lookup *)

DefaultClassFee ==
    1000

DefaultLateFine ==
    500

\* Faulty variant of the class lookup: an id that names no class resolves
\* to a class without a fee policy.
ClassById_Always(id) ==
    IF id \in DOMAIN class
    THEN Some(class[id])
    ELSE Some([fee |-> None, lateFineAmount |-> None, students |-> <<>>])

\* StudentAcademicClass.findById(id)
ClassById(id) ==
    IF id \in DOMAIN class THEN Some(class[id]) ELSE None

\* studentClass.fee || 0
BaseFeeAmount(classDoc) ==
    IF classDoc.fee = None \/ classDoc.fee = Some(0) THEN 0 ELSE classDoc.fee[1]

\* Faulty variant of the fine path's class fee: a missing fee counts as 0,
\* as on the payment-marking path.
ClassFee_OrZero(classDoc) ==
    BaseFeeAmount(classDoc)

\* studentClass?.fee ?? 1000
ClassFee(classDoc) ==
    IF classDoc.fee = None THEN DefaultClassFee ELSE classDoc.fee[1]

\* studentClass?.lateFineAmount ?? 500
LateFine(classDoc) ==
    IF classDoc.lateFineAmount = None
    THEN DefaultLateFine
    ELSE classDoc.lateFineAmount[1]

-----------------------------------------------------------------------------
(* Steps shared by the handlers *)

NoRequest ==
    [op |-> "none"]

Event(ev, status) ==
    [ev |-> ev, status |-> status]

StartTransaction ==
    Event("startTransaction", 0)

\* A request arrives at a free slot: the record of the previous one goes.
Accept(p, r) ==
    /\ req' = [req EXCEPT ![p] = r]
    /\ UNCHANGED <<ops, stale>>

\* The request is over: its slot is free for the next one. The log of its
\* session calls and responses stays until then.
Finish(p) ==
    /\ pc' = [pc EXCEPT ![p] = "idle"]
    /\ req' = [req EXCEPT ![p] = NoRequest]
    /\ loc' = [loc EXCEPT ![p] = <<>>]
    /\ err' = [err EXCEPT ![p] = None]
    /\ tx' = [tx EXCEPT ![p] = FALSE]
    /\ ops' = [ops EXCEPT ![p] = <<>>]

Throw(p, error) ==
    /\ err' = [err EXCEPT ![p] = Some(error)]
    /\ pc' = [pc EXCEPT ![p] = "catch"]

\* One upsert of the transaction: buffered when the store accepts it,
\* thrown when it refuses.
Upsert(p, studentId, month, u, nextPc) ==
    IF UpsertErrors(p, studentId, month) # {}
    THEN /\ \E e \in UpsertErrors(p, studentId, month) : Throw(p, e)
         /\ UNCHANGED ops
    ELSE /\ ops' = [ops EXCEPT ![p] =
                      Append(@, UpsertOp(p, studentId, month, u))]
         /\ pc' = [pc EXCEPT ![p] = nextPc]
         /\ UNCHANGED err

\* await session.commitTransaction(); session.endSession();
\* return res.status(200).json(new ApiResponse(200, ...))
SuccessEvents ==
    <<Event("commitTransaction", 0), Event("endSession", 0), Event("send", 200)>>

CommitAndRespond(p) ==
    /\ pc[p] = "commit"
    /\ feePayment' = CommitTransaction(feePayment, ops[p])
    /\ stale' = [StaleAfterCommit(p) EXCEPT ![p] = {}]
    /\ log' = [log EXCEPT ![p] = @ \o SuccessEvents]
    /\ Finish(p)
    /\ UNCHANGED <<workload, student, class, subject>>

\* await session.commitTransaction() rejects: control goes to the catch
\* block. The session has left its transaction (session.inTransaction() is
\* false once commitTransaction was called), and the store applies none of
\* the writes.
CommitRejected(p, commitPc, catchPc) ==
    /\ pc[p] = commitPc
    /\ workload.commitFailures
    /\ pc' = [pc EXCEPT ![p] = catchPc]
    /\ err' = [err EXCEPT ![p] = Some(CommitError)]
    /\ tx' = [tx EXCEPT ![p] = FALSE]
    /\ log' = [log EXCEPT ![p] =
                 Append(@, Event("commitTransaction", StatusOf(CommitError)))]
    /\ UNCHANGED <<workload, student, class, subject, feePayment, req, loc,
                   stale, ops>>

CommitFails(p) ==
    CommitRejected(p, "commit", "catch")

\* message of the 409 response: "Duplicate key error", and when the error
\* has a keyValue, ": A student with this ${field} already exists" with
\* field = Object.keys(error.keyValue)[0].
ConflictMessage(error) ==
    IF "keyValue" \in DOMAIN error
    THEN <<"Duplicate key error: A student with this", error.keyValue[1],
           "already exists">>
    ELSE <<"Duplicate key error">>

\* res.status(409).json({ success: false, message })
ConflictResponse(error) ==
    [ev |-> "send", status |-> 409, message |-> ConflictMessage(error)]

\* Faulty variant of the error responses: no Conflict response.
ErrorResponses_NoConflict(error) ==
    <<Event("send", StatusOf(error))>>

\* The responses of the catch block: 409 for a duplicate key, and then,
\* without a return in between, error.code || 500.
ErrorResponses(error) ==
    (IF error.code = Some(11000) THEN <<ConflictResponse(error)>> ELSE <<>>)
        \o <<Event("send", StatusOf(error))>>

\* Faulty variant of the catch block: the error responses are sent first,
\* the transaction is aborted and the session ended afterwards.
CatchEvents_RespondsFirst(inTransaction, error) ==
    ErrorResponses(error)
        \o (IF inTransaction THEN <<Event("abortTransaction", 0)>> ELSE <<>>)
        \o <<Event("endSession", 0)>>

\* catch: if (session.inTransaction()) abortTransaction(); endSession();
\* then the error responses.
CatchEvents(inTransaction, error) ==
    (IF inTransaction THEN <<Event("abortTransaction", 0)>> ELSE <<>>)
        \o <<Event("endSession", 0)>> \o ErrorResponses(error)

CatchAndRespond(p) ==
    /\ pc[p] = "catch"
    /\ feePayment' = AbortTransaction(feePayment, ops[p])
    /\ stale' = [stale EXCEPT ![p] = {}]
    /\ log' = [log EXCEPT ![p] = @ \o CatchEvents(tx[p], err[p][1])]
    /\ Finish(p)
    /\ UNCHANGED <<workload, student, class, subject>>

-----------------------------------------------------------------------------
(* MARK_FEE_PAYMENT_STATUS *)

\* Position of a month label in the calendar; 0 for a label that is none.
MonthIndex(month) ==
    IF \E i \in DOMAIN MonthNames : MonthNames[i] = month
    THEN CHOOSE i \in DOMAIN MonthNames : MonthNames[i] = month
    ELSE 0

\* isAdvancePayment || new Date(`${month} 1, ${year}`) > currentDate, with
\* currentDate lying in calendar month `now`.
IsFutureMonth(month, isAdvancePayment, now) ==
    isAdvancePayment \/ MonthIndex(month) > now

\* Faulty variant of the bulk updateObj: the late-fine flag is not reset.
MarkBulkUpdateObj_KeepsFine(status, isAdvancePayment, baseFeeAmount) ==
    [set |-> [status |-> status, finePaid |-> TRUE]
                 @@ (IF isAdvancePayment
                     THEN [isAdvancePayment |-> TRUE]
                     ELSE NoFields),
     setOnInsert |-> [baseAmount |-> baseFeeAmount],
     inc |-> NoFields]

\* Faulty variant of the bulk updateObj: finePaid is set only for "paid",
\* as in the single-month branch.
MarkBulkUpdateObj_FineWhenPaid(status, isAdvancePayment, baseFeeAmount) ==
    [set |-> [status |-> status, lateFine |-> FALSE]
                 @@ (IF status = "paid" THEN [finePaid |-> TRUE] ELSE NoFields)
                 @@ (IF isAdvancePayment
                     THEN [isAdvancePayment |-> TRUE]
                     ELSE NoFields),
     setOnInsert |-> [baseAmount |-> baseFeeAmount],
     inc |-> NoFields]

\* updateObj of the bulk branch (paymentDate is not modelled).
MarkBulkUpdateObj(status, isAdvancePayment, baseFeeAmount) ==
    [set |-> [status |-> status, lateFine |-> FALSE, finePaid |-> TRUE]
                 @@ (IF isAdvancePayment
                     THEN [isAdvancePayment |-> TRUE]
                     ELSE NoFields),
     setOnInsert |-> [baseAmount |-> baseFeeAmount],
     inc |-> NoFields]

\* Faulty variant of the single-month updateObj: finePaid is never set.
MarkSingleUpdateObj_NoFinePaid(status, isFutureMonth, baseFeeAmount) ==
    [set |-> [status |-> status, lateFine |-> FALSE]
                 @@ (IF isFutureMonth
                     THEN [isAdvancePayment |-> TRUE]
                     ELSE NoFields),
     setOnInsert |-> [baseAmount |-> baseFeeAmount],
     inc |-> NoFields]

\* Faulty variant of the single-month updateObj: marking a month resets
\* the fine amount of its record.
MarkSingleUpdateObj_ClearsFine(status, isFutureMonth, baseFeeAmount) ==
    [set |-> [status |-> status, lateFine |-> FALSE, lateFineAmount |-> 0]
                 @@ (IF status = "paid" THEN [finePaid |-> TRUE] ELSE NoFields)
                 @@ (IF isFutureMonth
                     THEN [isAdvancePayment |-> TRUE]
                     ELSE NoFields),
     setOnInsert |-> [baseAmount |-> baseFeeAmount],
     inc |-> NoFields]

\* updateObj of the single-month branch.
MarkSingleUpdateObj(status, isFutureMonth, baseFeeAmount) ==
    [set |-> [status |-> status, lateFine |-> FALSE]
                 @@ (IF status = "paid" THEN [finePaid |-> TRUE] ELSE NoFields)
                 @@ (IF isFutureMonth
                     THEN [isAdvancePayment |-> TRUE]
                     ELSE NoFields),
     setOnInsert |-> [baseAmount |-> baseFeeAmount],
     inc |-> NoFields]

\* req.body of a mark request, with the calendar month it arrives in.
\* months is a list of labels when it is an array, one label when it is a
\* string, and empty when it is of any other type.
MarkRequests ==
    {r \in [op : {"mark"}, student : StudentIds,
            monthsType : {"array", "string", "other"},
            months : MonthLists \cup {<<>>}, status : Statuses,
            isAdvancePayment : BOOLEAN, now : DOMAIN MonthNames] :
        /\ r.monthsType = "array" => r.months # <<>>
        /\ r.monthsType = "string" => Len(r.months) = 1
        /\ r.monthsType = "other" => r.months = <<>>}

\* The mark requests slot p receives under the workload.
MarkSent(p, r) ==
    /\ p \in workload.markSlots
    /\ r.student \in workload.students
    /\ r.monthsType \in workload.monthsTypes
    /\ r.monthsType = "array" => p \in workload.bulkSlots
    /\ \A i \in DOMAIN r.months : r.months[i] \in workload.months[p]
    /\ workload.repeats
          \/ \A i, j \in DOMAIN r.months : r.months[i] = r.months[j] => i = j
    /\ r.isAdvancePayment \in workload.advance
    /\ r.now \in workload.nows

\* startTransaction, the student and class reads, and the dispatch on the
\* type of months.
MarkRead(p) ==
    /\ pc[p] = "idle"
    /\ \E r \in MarkRequests :
        /\ MarkSent(p, r)
        /\ Accept(p, r)
        /\ tx' = [tx EXCEPT ![p] = TRUE]
        /\ log' = [log EXCEPT ![p] = <<StartTransaction>>]
        /\ UNCHANGED <<workload, student, class, subject, feePayment>>
        /\ IF student[r.student] = None
           THEN /\ Throw(p, ApiError(404, "Student not found."))
                /\ loc' = [loc EXCEPT ![p] = <<>>]
           ELSE IF ClassById(student[r.student][1].studentClass) = None
           THEN /\ Throw(p, ApiError(404, "Student class not found."))
                /\ loc' = [loc EXCEPT ![p] = <<>>]
           ELSE IF r.monthsType = "other"
           THEN /\ Throw(p, ApiError(400, "Months must be a string or an array"))
                /\ loc' = [loc EXCEPT ![p] = <<>>]
           ELSE /\ loc' = [loc EXCEPT ![p] =
                            [baseFeeAmount |->
                                 BaseFeeAmount(
                                     ClassById(student[r.student][1].studentClass)[1]),
                             i |-> 1]]
                /\ err' = [err EXCEPT ![p] = None]
                /\ pc' = [pc EXCEPT ![p] =
                            IF r.monthsType = "array" THEN "bulk" ELSE "single"]

\* FeePayment.bulkWrite(bulkUpdateOps, { session }): the operations run in
\* order, one upsert per listed month.
MarkBulkWrite(p) ==
    /\ pc[p] = "bulk"
    /\ LET r == req[p]
           i == loc[p].i
       IN  /\ Upsert(p, r.student, r.months[i],
                     MarkBulkUpdateObj(r.status, r.isAdvancePayment,
                                       loc[p].baseFeeAmount),
                     IF i = Len(r.months) THEN "commit" ELSE "bulk")
           /\ loc' = [loc EXCEPT ![p].i = i + 1]
    /\ UNCHANGED <<workload, student, class, subject, feePayment, req, tx, stale, log>>

\* FeePayment.findOneAndUpdate({student, month}, updateObj, {upsert, session})
MarkSingleWrite(p) ==
    /\ pc[p] = "single"
    /\ LET r == req[p]
           month == r.months[1]
       IN  Upsert(p, r.student, month,
                  MarkSingleUpdateObj(
                      r.status,
                      IsFutureMonth(month, r.isAdvancePayment, r.now),
                      loc[p].baseFeeAmount),
                  "commit")
    /\ UNCHANGED <<workload, student, class, subject, feePayment, req, loc, tx, stale, log>>

-----------------------------------------------------------------------------
(* IMPOSE_LATE_FINE *)

\* Faulty variant of the paid check: no month counts as settled.
AlreadyPaid_Never(existingPayment) ==
    FALSE

\* existingPayment?.status === "paid"
AlreadyPaid(existingPayment) ==
    existingPayment # None /\ existingPayment[1].status = "paid"

\* Faulty variant of the increment: the fine is added on every call.
IncAmount_Always(existingPayment, lateFine) ==
    lateFine

\* existingPayment?.lateFineAmount ? 0 : lateFine
IncAmount(existingPayment, lateFine) ==
    IF existingPayment # None /\ existingPayment[1].lateFineAmount # 0
    THEN 0
    ELSE lateFine

\* Faulty variant of the fine's updateObj: finePaid is never written.
ImposeUpdateObj_NoFinePaid(existingPayment, classFee, lateFine) ==
    [setOnInsert |-> [status |-> "not paid", baseAmount |-> classFee,
                      isAdvancePayment |-> FALSE],
     set |-> [lateFine |-> TRUE],
     inc |-> [lateFineAmount |-> IncAmount(existingPayment, lateFine)]]

\* updateObj of the fine upsert.
ImposeUpdateObj(existingPayment, classFee, lateFine) ==
    [setOnInsert |-> [status |-> "not paid", baseAmount |-> classFee,
                      isAdvancePayment |-> FALSE],
     set |-> [lateFine |-> TRUE]
                 @@ (IF existingPayment = None
                        \/ existingPayment[1].finePaid # FALSE
                     THEN [finePaid |-> FALSE]
                     ELSE NoFields),
     inc |-> [lateFineAmount |-> IncAmount(existingPayment, lateFine)]]

\* req.body of a fine request; a field the caller left out is None.
ImposeRequests ==
    [op : {"impose"},
     studentId : {None} \cup {Some(x) : x \in StudentIds},
     month : {None} \cup {Some(x) : x \in Months}]

\* The fine requests slot p receives under the workload.
ImposeSent(p, r) ==
    /\ p \in workload.slots
    /\ r.studentId # None => r.studentId[1] \in workload.students
    /\ r.month # None => r.month[1] \in workload.months[p]
    /\ (r.studentId = None \/ r.month = None) => "other" \in workload.monthsTypes

\* The input check, startTransaction, the student, class and payment
\* reads, and the rejection of a month already paid.
ImposeRead(p) ==
    /\ pc[p] = "idle"
    /\ \E r \in ImposeRequests :
        /\ ImposeSent(p, r)
        /\ UNCHANGED <<workload, student, class, subject, feePayment>>
        /\ IF r.studentId = None \/ r.month = None
           THEN \* return next(new ApiError(400, ...)): no session is
                \* opened, the application's error middleware answers.
                /\ log' = [log EXCEPT ![p] = <<Event("next", 400)>>]
                /\ UNCHANGED <<pc, req, loc, err, tx, ops, stale>>
           ELSE /\ Accept(p, r)
                /\ tx' = [tx EXCEPT ![p] = TRUE]
                /\ log' = [log EXCEPT ![p] = <<StartTransaction>>]
                /\ IF \/ student[r.studentId[1]] = None
                      \/ ClassById(student[r.studentId[1]][1].studentClass) = None
                   THEN /\ Throw(p, ApiError(404, "Student or associated class not found"))
                        /\ loc' = [loc EXCEPT ![p] = <<>>]
                   ELSE LET classDoc ==
                                ClassById(student[r.studentId[1]][1].studentClass)[1]
                            existingPayment ==
                                FindOne(feePayment, r.studentId[1], r.month[1])
                        IN  /\ loc' = [loc EXCEPT ![p] =
                                         [classFee |-> ClassFee(classDoc),
                                          lateFine |-> LateFine(classDoc),
                                          existingPayment |-> existingPayment]]
                            /\ IF AlreadyPaid(existingPayment)
                               THEN Throw(p, ApiError(400,
                                        "Cannot impose fine on already paid fee"))
                               ELSE /\ err' = [err EXCEPT ![p] = None]
                                    /\ pc' = [pc EXCEPT ![p] = "fine"]

\* FeePayment.findOneAndUpdate({student, month}, updateObj, {upsert, session})
ImposeWrite(p) ==
    /\ pc[p] = "fine"
    /\ Upsert(p, req[p].studentId[1], req[p].month[1],
              ImposeUpdateObj(loc[p].existingPayment, loc[p].classFee,
                              loc[p].lateFine),
              "commit")
    /\ UNCHANGED <<workload, student, class, subject, feePayment, req, loc, tx, stale, log>>

-----------------------------------------------------------------------------
(* The student directory: Student, StudentAcademicClass and Subject *)

\* The three collections together, as committed.
Directory ==
    [student |-> student, class |-> class, subject |-> subject]

Includes(list, x) ==
    \E i \in DOMAIN list : list[i] = x

\* { $pull: { students: x } }
Pull(list, x) ==
    SelectSeq(list, LAMBDA y : y # x)

\* { $addToSet: { students: x } }
AddToSet(list, x) ==
    IF Includes(list, x) THEN list ELSE Append(list, x)

\* What the identifier Class is bound to in the controller module: the
\* imports bind StudentAcademicClass and no Class.
ClassBinding ==
    None

\* Evaluating an identifier that has no binding.
ReferenceError ==
    [name |-> "ReferenceError", code |-> None, message |-> "Class is not defined"]

\* A directory request goes to its catch block.
ThrowIn(p, error, catchPc) ==
    /\ err' = [err EXCEPT ![p] = Some(error)]
    /\ pc' = [pc EXCEPT ![p] = catchPc]

\* What a directory transaction locks: a document of a collection, or an
\* entry of the unique index on Student.email.
DocKey(collection, id) ==
    <<collection, id>>

\* The keys request q's open transaction has written.
DirectoryWrites(q) ==
    IF q \in workload.directorySlots /\ tx[q] THEN loc[q].written ELSE {}

\* Another transaction wrote the key: one that is open, or one that
\* committed after request p's snapshot.
WrittenByOthers(p, k) ==
    \/ k \in StaleKeys(p)
    \/ \E q \in Procs \ {p} : k \in DirectoryWrites(q)

\* A write issued with { session } on documents another transaction wrote
\* fails with a write conflict.
DirectoryWriteErrors(p, keys) ==
    IF \E k \in keys : WrittenByOthers(p, k) THEN {WriteConflictError} ELSE {}

\* The transaction's own state: nothing read in the session, nothing written.
NoWrites ==
    [written |-> {}]

\* Faulty variant of the commit: the Student documents become visible, the
\* class and Subject documents do not.
Installed_StudentsOnly(dir, view, written) ==
    [student |-> [s \in DOMAIN dir.student |->
                     IF <<"student", s>> \in written
                     THEN view.student[s] ELSE dir.student[s]],
     class   |-> dir.class,
     subject |-> dir.subject]

\* The committed directory with the documents in `written` replaced by the
\* transaction's.
Installed(dir, view, written) ==
    [student |-> [s \in DOMAIN dir.student |->
                     IF DocKey("student", s) \in written
                     THEN view.student[s] ELSE dir.student[s]],
     class   |-> [c \in DOMAIN dir.class |->
                     IF DocKey("class", c) \in written
                     THEN view.class[c] ELSE dir.class[c]],
     subject |-> [m \in DOMAIN dir.subject |->
                     IF DocKey("subject", m) \in written
                     THEN view.subject[m] ELSE dir.subject[m]]]

\* Faulty variant of the abort: the transaction's writes stay.
Discarded_Keeps(written) ==
    written

\* session.abortTransaction(): none of the transaction's writes stays.
Discarded(written) ==
    {}

\* The directory after the catch block of request p.
AbortDirectory(p) ==
    LET dir == IF loc[p].written = {}
               THEN Directory
               ELSE Installed(Directory, loc[p].view, Discarded(loc[p].written))
    IN  /\ student' = dir.student
        /\ class' = dir.class
        /\ subject' = dir.subject

\* session.commitTransaction(): the transaction's writes become the
\* committed documents, all at once.
CommitDirectory(p) ==
    LET dir == Installed(Directory, loc[p].view, loc[p].written)
    IN  /\ student' = dir.student
        /\ class' = dir.class
        /\ subject' = dir.subject

\* The keys request p committed are stale in every other open transaction.
StaleAfterDirectoryCommit(p) ==
    [q \in Procs |->
        IF q = p THEN {}
        ELSE IF ~tx[q] THEN stale[q]
        ELSE stale[q] \cup {[key |-> k, existed |-> TRUE] : k \in loc[p].written}]

-----------------------------------------------------------------------------
(* REGISTER_STUDENT *)

\* req.body of a registration: the e-mail and the class id. A class id
\* outside ClassIds is a well-formed id that names no class.
RegisterRequests ==
    [op : {"register"}, email : Emails, studentClass : ClassIds \cup {"cX"}]

\* The registrations the workload sends to slot p.
RegisterSent(p, r) ==
    /\ r.email \in workload.emails[p]
    /\ r.studentClass \in workload.registerClasses

\* The _id the driver generates for a new student: fresh, and so
\* determined by the student's e-mail, which no two students share.
NewStudentId(email) ==
    CASE email = "e1" -> "s1"
      [] email = "e2" -> "s2"
      [] email = "e3" -> "s3"

EmailTaken(students, email) ==
    \E s \in DOMAIN students : students[s] # None /\ students[s][1].email = email

\* The unique index on Student.email: inserting an e-mail a committed
\* student has is a duplicate key; one that an open transaction inserted is
\* a write conflict.
UniqueEmailErrors(p, email) ==
    IF EmailTaken(student, email)
    THEN {DuplicateEmailError}
    ELSE IF \E q \in Procs \ {p} : DocKey("email", email) \in DirectoryWrites(q)
    THEN {WriteConflictError}
    ELSE {}

\* startTransaction; Student.findOne({ email }) and
\* StudentAcademicClass.findById(studentClass), both outside the session.
RegisterRead(p) ==
    /\ pc[p] = "idle"
    /\ p \in workload.directorySlots
    /\ \E r \in RegisterRequests :
        /\ RegisterSent(p, r)
        /\ Accept(p, r)
        /\ tx' = [tx EXCEPT ![p] = TRUE]
        /\ log' = [log EXCEPT ![p] = <<StartTransaction>>]
        /\ UNCHANGED <<workload, student, class, subject, feePayment>>
        /\ IF EmailTaken(student, r.email)
           THEN /\ ThrowIn(p, ApiError(400, "Student already exists"), "rcatch")
                /\ loc' = [loc EXCEPT ![p] = NoWrites]
           ELSE IF ClassById(r.studentClass) = None
           THEN /\ ThrowIn(p, ApiError(400, "Invalid class assigned to student"),
                           "rcatch")
                /\ loc' = [loc EXCEPT ![p] = NoWrites]
           ELSE /\ loc' = [loc EXCEPT ![p] =
                            NoWrites @@
                            [classExists |-> ClassById(r.studentClass)[1]]]
                /\ err' = [err EXCEPT ![p] = None]
                /\ pc' = [pc EXCEPT ![p] = "create"]

\* Student.create([...], { session }) under the unique index on email, and
\* the read-back of the created student in the session. It is the first
\* operation in the session: the transaction's snapshot is taken here.
RegisterCreate(p) ==
    /\ pc[p] = "create"
    /\ LET id     == NewStudentId(req[p].email)
           errors == UniqueEmailErrors(p, req[p].email)
       IN  IF errors # {}
           THEN /\ \E e \in errors : ThrowIn(p, e, "rcatch")
                /\ UNCHANGED loc
           ELSE /\ loc' = [loc EXCEPT ![p] =
                            [view |-> [Directory EXCEPT
                                         !.student[id] =
                                            Some([email |-> req[p].email,
                                                  name |-> "a",
                                                  studentClass |-> req[p].studentClass,
                                                  subjects |-> <<>>])],
                             written |-> {DocKey("student", id),
                                          DocKey("email", req[p].email)},
                             newStudent |-> id,
                             classExists |-> loc[p].classExists]]
                /\ pc' = [pc EXCEPT ![p] = "push"]
                /\ UNCHANGED err
    /\ stale' = [stale EXCEPT ![p] = {}]
    /\ UNCHANGED <<workload, student, class, subject, feePayment, req, tx,
                   ops, log>>

\* classExists.students.push(newStudent[0]._id); classExists.save({ session }):
\* the save sends { $push: { students: id } } for the class document.
RegisterPush(p) ==
    /\ pc[p] = "push"
    /\ LET c      == req[p].studentClass
           errors == DirectoryWriteErrors(p, {DocKey("class", c)})
       IN  IF errors # {}
           THEN /\ \E e \in errors : ThrowIn(p, e, "rcatch")
                /\ UNCHANGED loc
           ELSE /\ loc' = [loc EXCEPT
                             ![p].view.class[c].students =
                                 Append(@, loc[p].newStudent),
                             ![p].written = @ \cup {DocKey("class", c)}]
                /\ pc' = [pc EXCEPT ![p] = "rcommit"]
                /\ UNCHANGED err
    /\ UNCHANGED <<workload, student, class, subject, feePayment, req, tx, stale,
                   ops, log>>

\* commitTransaction; endSession; return res.status(201).json(...)
RegisterCommit(p) ==
    /\ pc[p] = "rcommit"
    /\ CommitDirectory(p)
    /\ stale' = StaleAfterDirectoryCommit(p)
    /\ log' = [log EXCEPT ![p] =
                 @ \o <<Event("commitTransaction", 0), Event("endSession", 0),
                        Event("send", 201)>>]
    /\ Finish(p)
    /\ UNCHANGED <<workload, feePayment>>

RegisterCommitFails(p) ==
    CommitRejected(p, "rcommit", "rcatch")

\* catch: abort if in a transaction, endSession, the error responses.
RegisterCatch(p) ==
    /\ pc[p] = "rcatch"
    /\ AbortDirectory(p)
    /\ stale' = [stale EXCEPT ![p] = {}]
    /\ log' = [log EXCEPT ![p] = @ \o CatchEvents(tx[p], err[p][1])]
    /\ Finish(p)
    /\ UNCHANGED <<workload, feePayment>>

-----------------------------------------------------------------------------
(* UPDATE_STUDENT *)

\* req.params.studentId and req.body of an update; a field the caller left
\* out is None. name stands for the scalar fields (name, section, grade,
\* parentContact, parentName), which the handler treats alike.
UpdateRequests ==
    [op : {"update"}, studentId : StudentIds,
     name : {None, Some("b")},
     studentClass : {None} \cup {Some(c) : c \in ClassIds},
     subjects : {None} \cup {Some(l) : l \in SubjectLists}]

\* The updates the workload sends to slot p.
UpdateSent(p, r) ==
    /\ r.studentId \in workload.updateStudents
    /\ r.name \in workload.updateNames[p]
    /\ r.studentClass \in workload.updateClasses
    /\ r.subjects \in workload.updateSubjects[p]

\* Faulty variant of the field check: a request is never without fields.
NoFieldsToUpdate_Never(r) ==
    FALSE

\* !name && !studentClass && ... && !subjects
NoFieldsToUpdate(r) ==
    r.name = None /\ r.studentClass = None /\ r.subjects = None

\* Faulty variant of the class-change test: a class named in the request
\* never counts as a change, so the membership updates are skipped.
ClassChanges_Never(r, existingStudent) ==
    FALSE

\* studentClass && studentClass !== existingStudent.studentClass.toString()
ClassChanges(r, existingStudent) ==
    r.studentClass # None /\ r.studentClass[1] # existingStudent.studentClass

\* newSubjects.filter((sub) => !existingSubjects.includes(sub))
SubjectsToAdd(newSubjects, existingSubjects) ==
    SelectSeq(newSubjects, LAMBDA sub : ~Includes(existingSubjects, sub))

\* existingSubjects.filter((sub) => !newSubjects.includes(sub))
SubjectsToRemove(newSubjects, existingSubjects) ==
    SelectSeq(existingSubjects, LAMBDA sub : ~Includes(newSubjects, sub))

\* The two Subject.updateMany calls on the transaction's Subject collection.
UpdateManySubjects(subjects, studentId, toAdd, toRemove) ==
    [m \in DOMAIN subjects |->
        [subjects[m] EXCEPT !.students =
            IF Includes(toAdd, m) THEN AddToSet(@, studentId)
            ELSE IF Includes(toRemove, m) THEN Pull(@, studentId)
            ELSE @]]

\* The Subject documents the two updateMany calls match.
SubjectKeys(toAdd, toRemove) ==
    {DocKey("subject", m) : m \in {m \in SubjectIds :
                                      Includes(toAdd, m) \/ Includes(toRemove, m)}}

\* { $set: { name, studentClass, ..., subjects, ... } }: a field that is
\* undefined is left as it is.
SetStudentFields(doc, r) ==
    [doc EXCEPT
        !.name = IF r.name = None THEN @ ELSE r.name[1],
        !.studentClass = IF r.studentClass = None THEN @ ELSE r.studentClass[1],
        !.subjects = IF r.subjects = None THEN @ ELSE r.subjects[1]]

\* startTransaction, the check that a field is given, and
\* Student.findById(studentId).session(session): the first operation in
\* the session, which takes the transaction's snapshot.
UpdateRead(p) ==
    /\ pc[p] = "idle"
    /\ p \in workload.directorySlots
    /\ \E r \in UpdateRequests :
        /\ UpdateSent(p, r)
        /\ Accept(p, r)
        /\ tx' = [tx EXCEPT ![p] = TRUE]
        /\ log' = [log EXCEPT ![p] = <<StartTransaction>>]
        /\ UNCHANGED <<workload, student, class, subject, feePayment>>
        /\ IF NoFieldsToUpdate(r)
           THEN /\ ThrowIn(p, ApiError(400, "No fields to update"), "ucatch")
                /\ loc' = [loc EXCEPT ![p] = NoWrites]
           ELSE IF student[r.studentId] = None
           THEN /\ ThrowIn(p, ApiError(404, "Student not found."), "ucatch")
                /\ loc' = [loc EXCEPT ![p] = NoWrites]
           ELSE /\ loc' = [loc EXCEPT ![p] =
                            NoWrites @@
                            [view |-> Directory,
                             existingStudent |-> student[r.studentId][1]]]
                /\ err' = [err EXCEPT ![p] = None]
                /\ pc' = [pc EXCEPT ![p] = "uclass"]

\* Handle Class Update: Class.findByIdAndUpdate($pull) on the old class and
\* Class.findByIdAndUpdate($addToSet) on the new one, when the class changes.
UpdateClass(p) ==
    /\ pc[p] = "uclass"
    /\ LET r      == req[p]
           old    == loc[p].existingStudent.studentClass
           keys   == {DocKey("class", old), DocKey("class", r.studentClass[1])}
       IN  IF ~ClassChanges(r, loc[p].existingStudent)
           THEN /\ pc' = [pc EXCEPT ![p] = "usubjects"]
                /\ UNCHANGED <<loc, err>>
           ELSE IF ClassBinding = None
           THEN /\ ThrowIn(p, ReferenceError, "ucatch")
                /\ UNCHANGED loc
           ELSE IF DirectoryWriteErrors(p, keys) # {}
           THEN /\ \E e \in DirectoryWriteErrors(p, keys) : ThrowIn(p, e, "ucatch")
                /\ UNCHANGED loc
           ELSE /\ loc' = [loc EXCEPT
                             ![p].view.class =
                                [c \in DOMAIN @ |->
                                    [@[c] EXCEPT !.students =
                                        IF c = r.studentClass[1]
                                        THEN AddToSet(@, r.studentId)
                                        ELSE IF c = old
                                        THEN Pull(@, r.studentId)
                                        ELSE @]],
                             ![p].written = @ \cup keys]
                /\ pc' = [pc EXCEPT ![p] = "usubjects"]
                /\ UNCHANGED err
    /\ UNCHANGED <<workload, student, class, subject, feePayment, req, tx, stale,
                   ops, log>>

\* Handle Subjects Update.
UpdateSubjects(p) ==
    /\ pc[p] = "usubjects"
    /\ LET r == req[p]
           existingSubjects == loc[p].existingStudent.subjects
           newSubjects == IF r.subjects = None THEN <<>> ELSE r.subjects[1]
           toAdd    == SubjectsToAdd(newSubjects, existingSubjects)
           toRemove == SubjectsToRemove(newSubjects, existingSubjects)
           keys     == SubjectKeys(toAdd, toRemove)
       IN  IF r.subjects = None
           THEN /\ pc' = [pc EXCEPT ![p] = "ustudent"]
                /\ UNCHANGED <<loc, err>>
           ELSE IF DirectoryWriteErrors(p, keys) # {}
           THEN /\ \E e \in DirectoryWriteErrors(p, keys) : ThrowIn(p, e, "ucatch")
                /\ UNCHANGED loc
           ELSE /\ loc' = [loc EXCEPT
                             ![p].view.subject =
                                UpdateManySubjects(@, r.studentId, toAdd, toRemove),
                             ![p].written = @ \cup keys]
                /\ pc' = [pc EXCEPT ![p] = "ustudent"]
                /\ UNCHANGED err
    /\ UNCHANGED <<workload, student, class, subject, feePayment, req, tx, stale,
                   ops, log>>

\* Student.findByIdAndUpdate(studentId, { $set }, { new, runValidators,
\* session }), and the 404 when it finds no student.
UpdateStudentDoc(p) ==
    /\ pc[p] = "ustudent"
    /\ LET r      == req[p]
           errors == DirectoryWriteErrors(p, {DocKey("student", r.studentId)})
       IN  IF loc[p].view.student[r.studentId] = None
           THEN /\ ThrowIn(p, ApiError(404, "Student not found."), "ucatch")
                /\ UNCHANGED loc
           ELSE IF errors # {}
           THEN /\ \E e \in errors : ThrowIn(p, e, "ucatch")
                /\ UNCHANGED loc
           ELSE /\ loc' = [loc EXCEPT
                             ![p].view.student[r.studentId] =
                                Some(SetStudentFields(@[1], r)),
                             ![p].written = @ \cup {DocKey("student", r.studentId)}]
                /\ pc' = [pc EXCEPT ![p] = "ucommit"]
                /\ UNCHANGED err
    /\ UNCHANGED <<workload, student, class, subject, feePayment, req, tx, stale,
                   ops, log>>

\* commitTransaction; endSession; return res.status(200).json(...)
UpdateCommit(p) ==
    /\ pc[p] = "ucommit"
    /\ CommitDirectory(p)
    /\ stale' = StaleAfterDirectoryCommit(p)
    /\ log' = [log EXCEPT ![p] = @ \o SuccessEvents]
    /\ Finish(p)
    /\ UNCHANGED <<workload, feePayment>>

UpdateCommitFails(p) ==
    CommitRejected(p, "ucommit", "ucatch")

\* catch: abortTransaction; endSession; res.status(error.code || 500).
\* The abort is not guarded by session.inTransaction(): called after
\* commitTransaction it throws ("Cannot call abortTransaction after calling
\* commitTransaction"), the handler's promise rejects inside the catch
\* block, and neither endSession nor the response is reached. The store
\* has dropped the transaction's writes either way.
UpdateCatch(p) ==
    /\ pc[p] = "ucatch"
    /\ AbortDirectory(p)
    /\ stale' = [stale EXCEPT ![p] = {}]
    /\ log' = [log EXCEPT ![p] =
                 IF tx[p]
                 THEN @ \o <<Event("abortTransaction", 0), Event("endSession", 0),
                             Event("send", StatusOf(err[p][1]))>>
                 ELSE Append(@, Event("abortTransactionThrows", 0))]
    /\ Finish(p)
    /\ UNCHANGED <<workload, feePayment>>

-----
(* The fee policy of a class is edited by the class administration *)

UpdateClassFee(c) ==
    \E f \in FeeChoices, l \in LateFineChoices :
        /\ workload.policyEdits
        /\ class[c].students # <<>>
        /\ <<f, l>> # <<class[c].fee, class[c].lateFineAmount>>
        /\ class' = [class EXCEPT ![c].fee = f, ![c].lateFineAmount = l]
        /\ UNCHANGED <<workload, student, subject, feePayment, pc, req, loc,
                       tx, stale, ops, err, log>>

-----------------------------------------------------------------------------
(* Specification of the fee transaction engine *)

Init ==
    /\ workload \in Workloads
    /\ student = [s \in StudentIds |->
                     IF s = "s1"
                     THEN Some([email |-> "e1", name |-> "a",
                                studentClass |-> "cA", subjects |-> <<>>])
                     ELSE IF s \in workload.orphans
                     THEN Some([email |-> "e3", name |-> "a",
                                studentClass |-> "cX", subjects |-> <<>>])
                     ELSE None]
    /\ subject = [m \in SubjectIds |-> [students |-> <<>>]]
    /\ class = [c \in ClassIds |->
                   [fee |-> workload.policy[1],
                    lateFineAmount |-> workload.policy[2],
                    students |-> IF c = "cA" THEN <<"s1">> ELSE <<>>]]
    /\ feePayment = EmptyBag
    /\ pc = [p \in Procs |-> "idle"]
    /\ req = [p \in Procs |-> NoRequest]
    /\ loc = [p \in Procs |-> <<>>]
    /\ tx = [p \in Procs |-> FALSE]
    /\ stale = [p \in Procs |-> {}]
    /\ ops = [p \in Procs |-> <<>>]
    /\ err = [p \in Procs |-> None]
    /\ log = [p \in Procs |-> <<>>]

MARK_FEE_PAYMENT_STATUS(p) ==
    \/ MarkRead(p)
    \/ MarkBulkWrite(p)
    \/ MarkSingleWrite(p)

IMPOSE_LATE_FINE(p) ==
    \/ ImposeRead(p)
    \/ ImposeWrite(p)

REGISTER_STUDENT(p) ==
    \/ RegisterRead(p)
    \/ RegisterCreate(p)
    \/ RegisterPush(p)
    \/ RegisterCommit(p)
    \/ RegisterCommitFails(p)
    \/ RegisterCatch(p)

UPDATE_STUDENT(p) ==
    \/ UpdateRead(p)
    \/ UpdateClass(p)
    \/ UpdateSubjects(p)
    \/ UpdateStudentDoc(p)
    \/ UpdateCommit(p)
    \/ UpdateCommitFails(p)
    \/ UpdateCatch(p)

Next ==
    \/ \E p \in Procs : MARK_FEE_PAYMENT_STATUS(p)
    \/ \E p \in Procs : IMPOSE_LATE_FINE(p)
    \/ \E p \in Procs : REGISTER_STUDENT(p)
    \/ \E p \in Procs : UPDATE_STUDENT(p)
    \/ \E p \in Procs : CommitAndRespond(p)
    \/ \E p \in Procs : CommitFails(p)
    \/ \E p \in Procs : CatchAndRespond(p)
    \/ \E c \in ClassIds : UpdateClassFee(c)

Spec ==
    Init /\ [][Next]_vars

-----------------------------------------------------------------------------
(* The handlers run alone: the collection a request leaves when no other
   request runs between its first read and its commit *)

UpsertAlone(store, studentId, month, u) ==
    ApplyOp(store,
            [path |-> IF FindOne(store, studentId, month) = None
                      THEN "insert"
                      ELSE "update",
             student |-> studentId, month |-> month, update |-> u])

MarkSingleAlone(store, baseFeeAmount, studentId, month, status, isAdvancePayment, now) ==
    UpsertAlone(store, studentId, month,
                MarkSingleUpdateObj(status,
                                    IsFutureMonth(month, isAdvancePayment, now),
                                    baseFeeAmount))

\* Single-month mark requests for the listed months, one after another.
RECURSIVE MarkSinglesAlone(_, _, _, _, _, _, _)
MarkSinglesAlone(store, baseFeeAmount, studentId, months, status, isAdvancePayment, now) ==
    IF months = <<>>
    THEN store
    ELSE MarkSinglesAlone(
             MarkSingleAlone(store, baseFeeAmount, studentId, Head(months),
                             status, isAdvancePayment, now),
             baseFeeAmount, studentId, Tail(months), status, isAdvancePayment,
             now)

\* One bulk mark request for the listed months.
RECURSIVE MarkBulkAlone(_, _, _, _, _, _)
MarkBulkAlone(store, baseFeeAmount, studentId, months, status, isAdvancePayment) ==
    IF months = <<>>
    THEN store
    ELSE MarkBulkAlone(
             UpsertAlone(store, studentId, Head(months),
                         MarkBulkUpdateObj(status, isAdvancePayment,
                                           baseFeeAmount)),
             baseFeeAmount, studentId, Tail(months), status, isAdvancePayment)

ImposeAlone(store, classDoc, studentId, month) ==
    IF AlreadyPaid(FindOne(store, studentId, month))
    THEN store
    ELSE UpsertAlone(store, studentId, month,
                     ImposeUpdateObj(FindOne(store, studentId, month),
                                     ClassFee(classDoc), LateFine(classDoc)))

-----------------------------------------------------------------------------
(* Vocabulary of the properties *)

\* The committed fee record of (student, month), None when there is none.
Record(studentId, month) ==
    FindOne(feePayment, studentId, month)

\* Slot p takes the step that commits its transaction and answers 200.
Commits(p) ==
    pc[p] = "commit" /\ pc'[p] = "idle"

\* Slot p takes the step that runs its catch block.
Catches(p) ==
    pc[p] = "catch" /\ pc'[p] = "idle"

\* Slot p takes the step that accepts a request and does its reads.
Reads(p) ==
    pc[p] = "idle" /\ req'[p] # NoRequest

IsSingleMark(r) ==
    r.op = "mark" /\ r.monthsType = "string"

IsBulkMark(r) ==
    r.op = "mark" /\ r.monthsType = "array"

IsImpose(r) ==
    r.op = "impose"

\* The class document of a registered student.
ClassOf(studentId) ==
    class[student[studentId][1].studentClass]

-----------------------------------------------------------------------------
(* C1 *)

\* The reads of a single-month mark take the class fee as the base fee, 0
\* when the class has none.
C1_ReadsFee(p) ==
    (Reads(p) /\ IsSingleMark(req'[p]) /\ pc'[p] = "single")
        => loc'[p].baseFeeAmount =
               (IF ClassOf(req'[p].student).fee = None
                THEN 0
                ELSE ClassOf(req'[p].student).fee[1])

\* The commit of a single-month "paid" mark leaves the record paid.
C1_CommitsPaid(p) ==
    (Commits(p) /\ IsSingleMark(req[p]) /\ req[p].status = "paid")
        => LET before == Record(req[p].student, req[p].months[1])
               after  == FindOne(feePayment', req[p].student, req[p].months[1])
           IN  /\ after # None
               /\ after[1].status = "paid"
               /\ after[1].lateFine = FALSE
               /\ after[1].finePaid = TRUE
               /\ before = None => after[1].baseAmount = loc[p].baseFeeAmount

\* C1: a single-month markPayment(s, m, "paid") that succeeds, for an
\* existing student whose class exists and from any prior state of the
\* (s, m) record, leaves the record with status "paid", lateFine false and
\* finePaid true; when there was no record, its baseAmount is the class fee
\* the request read, 0 when the class fee is unset.
C1_MarkPaid ==
    [][\A p \in Procs : C1_ReadsFee(p) /\ C1_CommitsPaid(p)]_vars

\* A paid single-month mark is about to commit on a record that is unpaid
\* and carries an outstanding fine.
C1_Witness ==
    \E p \in Procs :
        /\ pc[p] = "commit" /\ IsSingleMark(req[p]) /\ req[p].status = "paid"
        /\ ops[p] # <<>>
        /\ Record(req[p].student, req[p].months[1]) # None
        /\ Record(req[p].student, req[p].months[1])[1].status = "not paid"
        /\ Record(req[p].student, req[p].months[1])[1].lateFine = TRUE
        /\ Record(req[p].student, req[p].months[1])[1].finePaid = FALSE

-----------------------------------------------------------------------------
(* C2 *)

\* From the committed collection, for a registered student with a class
\* and a month whose record is absent or not paid, a second imposeLateFine right after
\* the first leaves the lateFineAmount the first one left.
C2_TwiceAsOnce ==
    \A s \in StudentIds, m \in Months :
        (/\ student[s] # None /\ student[s][1].studentClass \in ClassIds
         /\ ~AlreadyPaid(Record(s, m)))
            => LET once  == ImposeAlone(feePayment, ClassOf(s), s, m)
                   twice == ImposeAlone(once, ClassOf(s), s, m)
               IN  /\ FindOne(once, s, m) # None
                   /\ FindOne(twice, s, m) # None
                   /\ FindOne(twice, s, m)[1].lateFineAmount
                          = FindOne(once, s, m)[1].lateFineAmount

\* A fine request that commits changes the collection as the handler run
\* alone does from the collection it commits on, with the policy it read.
C2_CommitsAsAlone(p) ==
    (Commits(p) /\ IsImpose(req[p]))
        => feePayment' =
               UpsertAlone(feePayment, req[p].studentId[1], req[p].month[1],
                           ImposeUpdateObj(
                               Record(req[p].studentId[1], req[p].month[1]),
                               loc[p].classFee, loc[p].lateFine))

\* C2: idempotence of imposeLateFine: for an existing student with a
\* resolvable class and a month whose record is absent or not paid, two
\* imposeLateFine calls in succession with no payment in between leave the
\* same lateFineAmount on the record as one call.
C2_ImposeIdempotent ==
    /\ []C2_TwiceAsOnce
    /\ [][\A p \in Procs : C2_CommitsAsAlone(p)]_vars

\* A second fine request is about to commit on a record that an earlier
\* one left unpaid with a nonzero fine.
C2_Witness ==
    \E p \in Procs :
        /\ pc[p] = "commit" /\ IsImpose(req[p]) /\ ops[p] # <<>>
        /\ Record(req[p].studentId[1], req[p].month[1]) # None
        /\ Record(req[p].studentId[1], req[p].month[1])[1].status = "not paid"
        /\ Record(req[p].studentId[1], req[p].month[1])[1].lateFine = TRUE
        /\ Record(req[p].studentId[1], req[p].month[1])[1].lateFineAmount # 0

-----------------------------------------------------------------------------
(* C3 *)

AlreadyPaidError ==
    ApiError(400, "Cannot impose fine on already paid fee")

\* The reads of a fine request for a registered student find the month
\* paid: the request goes to its catch block with the 400 error.
C3_ReadsPaid(p) ==
    (/\ Reads(p) /\ IsImpose(req'[p])
     /\ student[req'[p].studentId[1]] # None
     /\ Record(req'[p].studentId[1], req'[p].month[1]) # None
     /\ Record(req'[p].studentId[1], req'[p].month[1])[1].status = "paid")
        => /\ pc'[p] = "catch"
           /\ err'[p] = Some(AlreadyPaidError)
           /\ ops'[p] = <<>>
           /\ feePayment' = feePayment

\* The catch block of that request aborts the transaction, answers with
\* an error and leaves the collection as it was.
C3_CatchesPaid(p) ==
    (Catches(p) /\ IsImpose(req[p]) /\ err[p] = Some(AlreadyPaidError))
        => /\ feePayment' = feePayment
           /\ Event("abortTransaction", 0) \in
                  {log'[p][i] : i \in DOMAIN log'[p]}
           /\ Event("commitTransaction", 0) \notin
                  {log'[p][i] : i \in DOMAIN log'[p]}
           /\ Event("send", 200) \notin
                  {log'[p][i] : i \in DOMAIN log'[p]}

\* No fine request commits on a paid record.
C3_NeverCommitsOnPaid(p) ==
    (Commits(p) /\ IsImpose(req[p]))
        => ~AlreadyPaid(Record(req[p].studentId[1], req[p].month[1]))

\* C3: imposeLateFine(s, m) fails with the invalid-state error (400,
\* "Cannot impose fine on already paid fee") whenever the existing record
\* of (s, m) is paid, and the record (status, lateFine, lateFineAmount,
\* finePaid, baseAmount) is left exactly as it was.
C3_PaidRejected ==
    [][\A p \in Procs :
          C3_ReadsPaid(p) /\ C3_CatchesPaid(p) /\ C3_NeverCommitsOnPaid(p)]_vars

\* A fine request on a paid month is in its catch block.
C3_Witness ==
    \E p \in Procs :
        /\ pc[p] = "catch" /\ IsImpose(req[p])
        /\ err[p] = Some(AlreadyPaidError)
        /\ Record(req[p].studentId[1], req[p].month[1]) # None
        /\ Record(req[p].studentId[1], req[p].month[1])[1].status = "paid"

-----------------------------------------------------------------------------
(* C4 *)

\* Slot p takes the last step of an update request: its commit or its
\* catch block.
UpdateResponds(p) ==
    pc[p] \in {"ucommit", "ucatch"} /\ pc'[p] = "idle"

Occurrences(list, x) ==
    Cardinality({i \in DOMAIN list : list[i] = x})

C4_Reassigns(p) ==
    (/\ UpdateResponds(p)
     /\ student[req[p].studentId] # None
     /\ ClassChanges(req[p], student[req[p].studentId][1]))
        => LET s == req[p].studentId
               A == student[s][1].studentClass
               B == req[p].studentClass[1]
           IN  /\ log'[p][Len(log'[p])] = Event("send", 200)
               /\ Occurrences(class'[A].students, s) = 0
               /\ Occurrences(class'[B].students, s) = 1
               /\ student'[s][1].studentClass = B

\* C4: an update of an existing student s of class A that names a new
\* class B different from A succeeds, and afterwards A.students does not
\* contain s, B.students contains s exactly once and s.studentClass is B.
C4_ClassReassigned ==
    [][\A p \in Procs : C4_Reassigns(p)]_vars

-----------------------------------------------------------------------------
(* C5 *)

\* C5: in every reachable state, after any sequence and interleaving of
\* single and bulk markPayment and imposeLateFine requests, the FeePayment
\* collection holds at most one record for each (student, month) pair.
C5_OneRecordPerKey ==
    \A s \in StudentIds, m \in Months :
        /\ Cardinality(DocsOf(feePayment, s, m)) <= 1
        /\ \A d \in DocsOf(feePayment, s, m) : CopiesIn(d, feePayment) = 1

\* A request that tried to insert the record of a key is in its catch
\* block with the store's error, the record of the key having been
\* committed by a concurrent request.
C5_Witness ==
    \E p \in Procs :
        /\ pc[p] = "catch"
        /\ err[p] \in {Some(DuplicateKeyError), Some(WriteConflictError)}
        /\ \/ /\ IsImpose(req[p])
              /\ loc[p].existingPayment = None
              /\ Record(req[p].studentId[1], req[p].month[1]) # None
           \/ /\ IsSingleMark(req[p])
              /\ Record(req[p].student, req[p].months[1]) # None

-----------------------------------------------------------------------------
(* C6 *)

\* C6: once the record of (s, m) exists, no step of any markPayment (single
\* or bulk) or imposeLateFine request, and no edit of the class fee, removes
\* it or changes its baseAmount.
C6_BaseAmountImmutable ==
    [][\A s \in StudentIds, m \in Months :
          Record(s, m) # None
              => /\ FindOne(feePayment', s, m) # None
                 /\ FindOne(feePayment', s, m)[1].baseAmount
                        = Record(s, m)[1].baseAmount]_vars

\* A mark request is about to commit on a record whose baseAmount is not
\* the base fee the request read: the class fee was edited since the
\* record was inserted.
C6_Witness ==
    \E p \in Procs :
        /\ pc[p] = "commit" /\ req[p].op = "mark" /\ ops[p] # <<>>
        /\ Record(req[p].student, req[p].months[1]) # None
        /\ Record(req[p].student, req[p].months[1])[1].baseAmount
               # loc[p].baseFeeAmount

-----------------------------------------------------------------------------
(* C7 *)

\* The amounts a record without a fine and one application of a class
\* late fine can leave.
OneFine ==
    {0, FeePaymentDefaults.lateFineAmount}
        \cup {LateFine([lateFineAmount |-> l]) : l \in LateFineChoices}

\* No record carries more than one late fine.
C7_AtMostOnce ==
    \A d \in BagToSet(feePayment) : d.lateFineAmount \in OneFine

\* A fine request that commits on a key without a fine leaves the late
\* fine it read, and on a key with a fine leaves the amount as it was.
C7_CommitsOnce(p) ==
    (Commits(p) /\ IsImpose(req[p]))
        => LET before == Record(req[p].studentId[1], req[p].month[1])
               after  == FindOne(feePayment', req[p].studentId[1],
                                 req[p].month[1])
           IN  /\ after # None
               /\ after[1].lateFineAmount =
                      IF before # None /\ before[1].lateFineAmount # 0
                      THEN before[1].lateFineAmount
                      ELSE loc[p].lateFine

\* C7: two imposeLateFine(s, m) requests that run concurrently on a pair
\* without a fine never double the fine: in every interleaving of their
\* existence reads and upserts the committed lateFineAmount is the class
\* late-fine amount applied once.
C7_ConcurrentFineOnce ==
    /\ []C7_AtMostOnce
    /\ [][\A p \in Procs : C7_CommitsOnce(p)]_vars

\* Two fine requests on the same key are in flight, both having read a
\* record without a fine; one is about to commit its upsert.
C7_Witness ==
    \E p \in Procs, q \in Procs :
        /\ p # q
        /\ IsImpose(req[p]) /\ IsImpose(req[q])
        /\ req[p].studentId = req[q].studentId /\ req[p].month = req[q].month
        /\ pc[p] = "commit" /\ pc[q] = "fine"
        /\ IncAmount(loc[p].existingPayment, 1) = 1
        /\ IncAmount(loc[q].existingPayment, 1) = 1

-----------------------------------------------------------------------------
(* C8 *)

\* The record state the equivalence compares.
RecordState(d) ==
    [status |-> d.status, lateFine |-> d.lateFine, finePaid |-> d.finePaid,
     isAdvancePayment |-> d.isAdvancePayment, baseAmount |-> d.baseAmount,
     lateFineAmount |-> d.lateFineAmount]

\* The same, without the advance-payment flag.
RecordStateButAdvance(d) ==
    [status |-> d.status, lateFine |-> d.lateFine, finePaid |-> d.finePaid,
     baseAmount |-> d.baseAmount, lateFineAmount |-> d.lateFineAmount]

\* The collection single-month calls for the months of the bulk request
\* of slot p leave, one after another with the request's arguments, from
\* the collection the bulk request commits on.
AfterSingles(p) ==
    MarkSinglesAlone(feePayment, loc[p].baseFeeAmount, req[p].student,
                     req[p].months, req[p].status, req[p].isAdvancePayment,
                     req[p].now)

\* A single-month mark that commits changes the collection as
\* MarkSingleAlone does from the collection it commits on.
C8_SingleCommitsAsAlone(p) ==
    (Commits(p) /\ IsSingleMark(req[p]))
        => feePayment' =
               MarkSingleAlone(feePayment, loc[p].baseFeeAmount,
                               req[p].student, req[p].months[1],
                               req[p].status, req[p].isAdvancePayment,
                               req[p].now)

C8_BulkCommitsAsSingles(p) ==
    (Commits(p) /\ IsBulkMark(req[p]) /\ req[p].status = "paid")
        => \A i \in DOMAIN req[p].months :
               LET bulk   == FindOne(feePayment', req[p].student, req[p].months[i])
                   single == FindOne(AfterSingles(p), req[p].student,
                                     req[p].months[i])
               IN  /\ bulk # None /\ single # None
                   /\ RecordState(bulk[1]) = RecordState(single[1])

\* C8 as stated: from the same state, one bulk markPayment of a list of
\* months as "paid" leaves, for each listed month, the same record state
\* (status, lateFine, finePaid, isAdvancePayment, baseAmount,
\* lateFineAmount) as single-month calls for the same months, one after
\* another, with the same arguments.
C8_BulkAsSingles ==
    [][\A p \in Procs : C8_BulkCommitsAsSingles(p)]_vars

C8_BulkCommitsAsSinglesButFutureFlag(p) ==
    (Commits(p) /\ IsBulkMark(req[p]) /\ req[p].status = "paid")
        => \A i \in DOMAIN req[p].months :
               LET bulk   == FindOne(feePayment', req[p].student, req[p].months[i])
                   single == FindOne(AfterSingles(p), req[p].student,
                                     req[p].months[i])
               IN  /\ bulk # None /\ single # None
                   /\ RecordStateButAdvance(bulk[1])
                          = RecordStateButAdvance(single[1])
                   /\ (\/ req[p].isAdvancePayment
                       \/ MonthIndex(req[p].months[i]) <= req[p].now)
                          => bulk[1].isAdvancePayment = single[1].isAdvancePayment

\* C8 amended: one bulk markPayment of a list of months as "paid" leaves,
\* for each listed month, the same status, lateFine, finePaid, baseAmount
\* and lateFineAmount as single-month calls for the same months with the
\* same arguments, and the same isAdvancePayment when the caller passes the
\* flag or the month does not begin after the current date.
C8_BulkAsSinglesButFutureFlag ==
    [][\A p \in Procs :
          /\ C8_SingleCommitsAsAlone(p)
          /\ C8_BulkCommitsAsSinglesButFutureFlag(p)]_vars

\* A bulk "paid" mark of two months is about to commit, one of the months
\* having an unpaid record with an outstanding fine.
C8_Witness ==
    \E p \in Procs :
        /\ pc[p] = "commit" /\ IsBulkMark(req[p]) /\ req[p].status = "paid"
        /\ Len(req[p].months) = 2 /\ Len(ops[p]) = 2
        /\ \E i \in DOMAIN req[p].months :
              /\ Record(req[p].student, req[p].months[i]) # None
              /\ Record(req[p].student, req[p].months[i])[1].lateFine = TRUE
              /\ Record(req[p].student, req[p].months[i])[1].finePaid = FALSE

-----------------------------------------------------------------------------
(* C9 *)

\* Slot p takes a step of the request it serves.
Steps(p) ==
    pc'[p] # pc[p] \/ loc'[p] # loc[p] \/ ops'[p] # ops[p]

\* A step of a bulk mark request other than its commit, its catch block
\* included, leaves the committed collection as it is.
C9_NothingBeforeCommit(p) ==
    (/\ IsBulkMark(req[p]) \/ IsBulkMark(req'[p])
     /\ Steps(p)
     /\ ~Commits(p))
        => feePayment' = feePayment

\* The catch block of a bulk mark request leaves the collection as it is:
\* it aborts the transaction, unless the store refused the commit and
\* dropped the transaction itself.
C9_FailureAborts(p) ==
    (Catches(p) /\ IsBulkMark(req[p]))
        => /\ feePayment' = feePayment
           /\ \/ Event("abortTransaction", 0) \in
                     {log'[p][i] : i \in DOMAIN log'[p]}
              \/ err[p] = Some(CommitError)
           /\ Event("commitTransaction", 0) \notin
                  {log'[p][i] : i \in DOMAIN log'[p]}

\* The commit of a bulk mark request leaves a record with the requested
\* status for every listed month.
C9_SuccessUpsertsAll(p) ==
    (Commits(p) /\ IsBulkMark(req[p]))
        => /\ Len(ops[p]) = Len(req[p].months)
           /\ \A i \in DOMAIN req[p].months :
                 LET after == FindOne(feePayment', req[p].student,
                                      req[p].months[i])
                 IN  /\ after # None
                     /\ after[1].status = req[p].status
                     /\ after[1].lateFine = FALSE
                     /\ after[1].finePaid = TRUE

\* C9: bulk markPayment is all-or-nothing: when a bulk call over months
\* m1..mk fails at any point, no FeePayment record of a listed month is
\* created or changed; when it succeeds, every listed month has been
\* upserted.
C9_BulkAllOrNothing ==
    [][\A p \in Procs :
          /\ C9_NothingBeforeCommit(p)
          /\ C9_FailureAborts(p)
          /\ C9_SuccessUpsertsAll(p)]_vars

\* A bulk mark request is in its catch block after the store refused one
\* of its upserts, with an earlier upsert buffered in its transaction.
C9_Witness ==
    \E p \in Procs :
        /\ pc[p] = "catch" /\ IsBulkMark(req[p])
        /\ ops[p] # <<>>
        /\ err[p] \in {Some(DuplicateKeyError), Some(WriteConflictError)}

-----------------------------------------------------------------------------
(* C10 *)

\* The reads of a fine request take the class fee, 1000 when the class has
\* none, and the class late fine, 500 when the class has none.
C10_ReadsPolicy(p) ==
    (Reads(p) /\ IsImpose(req'[p]) /\ pc'[p] = "fine")
        => LET classDoc == ClassOf(req'[p].studentId[1])
           IN  /\ loc'[p].classFee =
                      (IF classDoc.fee = None THEN 1000 ELSE classDoc.fee[1])
               /\ loc'[p].lateFine =
                      (IF classDoc.lateFineAmount = None
                       THEN 500
                       ELSE classDoc.lateFineAmount[1])

\* The commit of a fine request on a key without a record inserts one
\* record, seeded from the policy the request read.
C10_CommitsNewRecord(p) ==
    (/\ Commits(p) /\ IsImpose(req[p])
     /\ Record(req[p].studentId[1], req[p].month[1]) = None)
        => LET s == req[p].studentId[1]
               m == req[p].month[1]
           IN  /\ feePayment' = feePayment (+) SetToBag(
                      {FeeDoc(s, m, [status |-> "not paid",
                                     baseAmount |-> loc[p].classFee,
                                     lateFineAmount |-> loc[p].lateFine,
                                     lateFine |-> TRUE,
                                     finePaid |-> FALSE,
                                     isAdvancePayment |-> FALSE])})
               /\ (loc[p].classFee = 500 /\ loc[p].lateFine = 100)
                      => /\ FindOne(feePayment', s, m)[1].baseAmount = 500
                         /\ FindOne(feePayment', s, m)[1].lateFineAmount = 100

\* C10: an imposeLateFine(s, m) that succeeds on a pair without a record
\* creates one record with status "not paid", baseAmount the class fee
\* (1000 when unset), lateFineAmount the class late-fine amount (500 when
\* unset), lateFine true, finePaid false and isAdvancePayment false; class
\* fee 500 and late fine 100 give baseAmount 500 and lateFineAmount 100.
C10_FineCreatesRecord ==
    [][\A p \in Procs : C10_ReadsPolicy(p) /\ C10_CommitsNewRecord(p)]_vars

\* A fine request is about to commit on a key without a record, for a
\* student whose class has neither a fee nor a late-fine amount.
C10_Witness ==
    \E p \in Procs :
        /\ pc[p] = "commit" /\ IsImpose(req[p]) /\ ops[p] # <<>>
        /\ Record(req[p].studentId[1], req[p].month[1]) = None
        /\ ClassOf(req[p].studentId[1]).fee = None
        /\ ClassOf(req[p].studentId[1]).lateFineAmount = None
        /\ loc[p].classFee = DefaultClassFee
        /\ loc[p].lateFine = DefaultLateFine

-----------------------------------------------------------------------------
(* C11 *)

\* Student s is registered in class c.
InClass(s, c) ==
    student[s] # None /\ student[s][1].studentClass = c

\* C11: in every committed state, after any registrations and updates of
\* students, successful or failed, a student is in a class's students
\* exactly when the student's studentClass is that class, and no class's
\* students holds an id twice.
C11_MembershipConsistent ==
    \A c \in ClassIds, s \in StudentIds :
        /\ Includes(class[c].students, s) <=> InClass(s, c)
        /\ Occurrences(class[c].students, s) <= 1

\* Two students are registered in one class, and the slot that served the
\* last request answered a failure.
C11_Witness ==
    /\ \E c \in ClassIds : InClass("s1", c) /\ InClass("s2", c)
    /\ \E p \in Procs :
          /\ pc[p] = "idle" /\ log[p] # <<>>
          /\ log[p][Len(log[p])].ev = "send"
          /\ log[p][Len(log[p])].status >= 400

-----------------------------------------------------------------------------
(* C12 *)

\* Slot p takes the step that commits an update and answers 200.
UpdateCommits(p) ==
    pc[p] = "ucommit" /\ log'[p] # <<>> /\ log'[p][Len(log'[p])] = Event("send", 200)

\* Student s is in the students of exactly the subjects s.subjects names.
SubjectsConsistent(students, subjects, s) ==
    \A x \in SubjectIds :
        Includes(subjects[x].students, s) <=> Includes(students[s][1].subjects, x)

\* After the commit s.subjects names each subject of N once and no other.
C12_SubjectsField(p) ==
    (/\ UpdateCommits(p) /\ req[p].subjects # None
     /\ SubjectsConsistent(student, subject, req[p].studentId))
        => \A x \in SubjectIds :
              Occurrences(student'[req[p].studentId][1].subjects, x)
                  = IF Includes(req[p].subjects[1], x) THEN 1 ELSE 0

\* After the commit s is, once, in the students of each subject of N, and
\* in the students of no other subject.
C12_BackReferences(p) ==
    (/\ UpdateCommits(p) /\ req[p].subjects # None
     /\ SubjectsConsistent(student, subject, req[p].studentId))
        => \A x \in SubjectIds :
              Occurrences(subject'[x].students, req[p].studentId)
                  = IF Includes(req[p].subjects[1], x) THEN 1 ELSE 0

\* C12: from a state where subject membership is consistent for student s,
\* a successful update of s with a new subject list N leaves s.subjects
\* equal to N as a set without duplicates, and s in x.students exactly
\* when x is in N, for every subject x.
C12_SubjectsReassigned ==
    [][\A p \in Procs : C12_SubjectsField(p) /\ C12_BackReferences(p)]_vars

-----------------------------------------------------------------------------
(* C13 *)

\* Slot p serves an update that moves its student to another class.
Reassigning(p) ==
    /\ req[p].op = "update"
    /\ pc[p] \in {"uclass", "usubjects", "ustudent", "ucommit", "ucatch"}
    /\ "existingStudent" \in DOMAIN loc[p]
    /\ req[p].studentClass # None
    /\ req[p].studentClass[1] # loc[p].existingStudent.studentClass

\* The committed documents show student s wholly in class c: in its
\* students, with studentClass = c, and in the students of no other class.
WhollyIn(s, c) ==
    /\ InClass(s, c)
    /\ \A x \in ClassIds : Includes(class[x].students, s) <=> x = c

\* While a reassignment of s from class A to class B is served, the
\* committed documents show s wholly in A or wholly in B.
C13_NoHalfMove ==
    \A p \in Procs :
        Reassigning(p)
            => \/ WhollyIn(req[p].studentId, loc[p].existingStudent.studentClass)
               \/ WhollyIn(req[p].studentId, req[p].studentClass[1])

\* A step of an update other than its commit leaves the committed
\* directory as it is.
C13_NothingBeforeCommit(p) ==
    (req[p].op = "update" /\ ~UpdateCommits(p) /\ Steps(p))
        => Directory' = Directory

\* The commit of an update makes every document the transaction wrote
\* visible in the same step.
C13_CommitsTogether(p) ==
    UpdateCommits(p)
        => /\ \A s \in StudentIds :
                DocKey("student", s) \in loc[p].written
                    => student'[s] = loc[p].view.student[s]
           /\ \A c \in ClassIds :
                DocKey("class", c) \in loc[p].written
                    => class'[c] = loc[p].view.class[c]
           /\ \A x \in SubjectIds :
                DocKey("subject", x) \in loc[p].written
                    => subject'[x] = loc[p].view.subject[x]

\* C13: a class reassignment is never seen half applied: in no state
\* another request can read is the student out of the old class's
\* students without being in the new class's students and having
\* studentClass = the new class; the writes of an update become visible
\* together or not at all.
C13_ReassignmentAtomic ==
    /\ []C13_NoHalfMove
    /\ [][\A p \in Procs : C13_NothingBeforeCommit(p) /\ C13_CommitsTogether(p)]_vars

\* An update that moves s1 to another class has run its class step and is
\* still in its transaction, while another update of s1 has done its read.
C13_Witness ==
    \E p \in Procs, q \in Procs :
        /\ p # q
        /\ Reassigning(p) /\ pc[p] = "ucatch" /\ tx[p]
        /\ req[q].op = "update" /\ pc[q] = "uclass"
        /\ req[q].studentId = req[p].studentId

-----------------------------------------------------------------------------
(* C14 *)

\* Slot p serves a registration or an update.
IsDirectoryRequest(r) ==
    r.op \in {"register", "update"}

\* Slot p takes the step that commits a registration or an update.
DirectoryCommits(p) ==
    pc[p] \in {"rcommit", "ucommit"} /\ pc'[p] = "idle"

\* Slot p takes the step that runs the catch block of a registration or an
\* update.
DirectoryCatches(p) ==
    pc[p] \in {"rcatch", "ucatch"} /\ pc'[p] = "idle"

\* The catch block of a registration or an update leaves every committed
\* Student, class and Subject document as it was.
C14_CatchPersistsNothing(p) ==
    DirectoryCatches(p) => Directory' = Directory

\* No step of a registration or an update before its commit changes a
\* committed document.
C14_WritesStayInTransaction(p) ==
    (IsDirectoryRequest(req[p]) /\ Steps(p) /\ ~DirectoryCommits(p))
        => Directory' = Directory

\* C14: a registration or an update that fails at any step after its
\* transaction started (the student was created but the class write
\* fails, the subjects were updated but the student write fails, the
\* commit is refused) persists none of its writes to Student, class or
\* Subject documents.
C14_NoPartialState ==
    [][\A p \in Procs :
          C14_CatchPersistsNothing(p) /\ C14_WritesStayInTransaction(p)]_vars

\* A registration created its student in the transaction and its write to
\* the class document was refused: it is about to run its catch block.
C14_Witness ==
    \E p \in Procs :
        /\ pc[p] = "rcatch" /\ req[p].op = "register" /\ tx[p]
        /\ err[p] = Some(WriteConflictError)
        /\ "newStudent" \in DOMAIN loc[p]
        /\ DocKey("student", loc[p].newStudent) \in loc[p].written
        /\ student[loc[p].newStudent] = None

-----------------------------------------------------------------------------
(* C15 *)

\* The responses in a log, in the order they were sent.
Responses(events) ==
    SelectSeq(events, LAMBDA e : e.ev = "send")

\* The catch block of a fee request or a registration that caught a
\* duplicate-key error aborts the transaction, and the response the caller
\* gets is 409 with a message that names the first field of the violated
\* index.
C15_CatchAnswersConflict(p) ==
    (/\ pc[p] \in {"catch", "rcatch"} /\ pc'[p] = "idle"
     /\ err[p] # None /\ err[p][1].code = Some(11000))
        => /\ Includes(log'[p], Event("abortTransaction", 0))
           /\ ~Includes(log'[p], Event("commitTransaction", 0))
           /\ Responses(log'[p]) # <<>>
           /\ Responses(log'[p])[1].status = 409
           /\ Responses(log'[p])[1].message =
                 <<"Duplicate key error: A student with this",
                   err[p][1].keyValue[1], "already exists">>
           /\ err[p][1].keyValue[1] \in {"student", "email"}
           /\ feePayment' = feePayment /\ Directory' = Directory

\* C15: when the store signals a duplicate key during a mark, a fine or a
\* registration, the request's transaction is aborted and the caller
\* receives status 409 with a message naming the offending field.
C15_DuplicateKeyIsConflict ==
    [][\A p \in Procs : C15_CatchAnswersConflict(p)]_vars

\* A registration whose Student.create the store refused with a duplicate
\* key on email, because a concurrent registration with the same e-mail
\* committed after this one's check, is about to run its catch block.
C15_Witness ==
    \E p \in Procs :
        /\ pc[p] = "rcatch" /\ tx[p]
        /\ req[p].op = "register"
        /\ err[p] = Some(DuplicateEmailError)

-----------------------------------------------------------------------------
(* C16 *)

NotFound(message) ==
    ApiError(404, message)

\* The id names a registered student whose studentClass names no class.
ClassUnresolved(s) ==
    student[s] # None /\ student[s][1].studentClass \notin ClassIds

\* The reads of a mark request for an id that names no student, and of a
\* fine request for such an id or for a student whose class cannot be
\* resolved, throw NotFound with nothing written.
C16_ReadsNotFound(p) ==
    /\ (/\ Reads(p) /\ req'[p].op = "mark"
        /\ student[req'[p].student] = None)
          => /\ err'[p] = Some(NotFound("Student not found."))
             /\ pc'[p] = "catch" /\ ops'[p] = <<>>
    /\ (/\ Reads(p) /\ req'[p].op = "impose"
        /\ \/ student[req'[p].studentId[1]] = None
           \/ ClassUnresolved(req'[p].studentId[1]))
          => /\ err'[p] = Some(NotFound("Student or associated class not found"))
             /\ pc'[p] = "catch" /\ ops'[p] = <<>>

\* The catch block of a fee request that failed with NotFound aborts the
\* transaction and leaves the FeePayment collection as it is.
C16_CatchesNotFound(p) ==
    (/\ Catches(p) /\ err[p] # None
     /\ err[p][1] \in {NotFound("Student not found."),
                       NotFound("Student class not found."),
                       NotFound("Student or associated class not found")})
        => /\ feePayment' = feePayment
           /\ ~Includes(log'[p], Event("commitTransaction", 0))
           /\ Includes(log'[p], Event("abortTransaction", 0))

\* C16: a mark or a fine for a student that does not exist fails with
\* NotFound, a fine also when the student's class cannot be resolved, and
\* then no FeePayment record is created or changed.
C16_MissingStudentNotFound ==
    [][\A p \in Procs : C16_ReadsNotFound(p) /\ C16_CatchesNotFound(p)]_vars

\* A fine request for a student whose class is gone is about to run its
\* catch block, while the collection holds a record.
C16_Witness ==
    \E p \in Procs :
        /\ pc[p] = "catch" /\ req[p].op = "impose"
        /\ ClassUnresolved(req[p].studentId[1])
        /\ feePayment # EmptyBag

-----------------------------------------------------------------------------
(* C17 *)

InvalidInput(message) ==
    ApiError(400, message)

\* The three validation errors.
ValidationErrors ==
    {InvalidInput("Months must be a string or an array"),
     InvalidInput("No fields to update"),
     InvalidInput("Student ID and month are required")}

\* The committed documents of the four collections.
Committed ==
    <<student, class, subject, feePayment>>

\* A mark request for a student with a class, with months of another type
\* than string or array, throws InvalidInput with nothing written.
C17_ReadsMonthsOfOtherType(p) ==
    (/\ Reads(p) /\ req'[p].op = "mark" /\ req'[p].monthsType = "other"
     /\ student[req'[p].student] # None
     /\ ~ClassUnresolved(req'[p].student))
        => /\ err'[p] = Some(InvalidInput("Months must be a string or an array"))
           /\ pc'[p] = "catch" /\ ops'[p] = <<>>
           /\ Committed' = Committed

\* An update that gives no field throws InvalidInput with nothing written.
C17_ReadsNoFields(p) ==
    (/\ Reads(p) /\ req'[p].op = "update"
     /\ req'[p].name = None /\ req'[p].studentClass = None
     /\ req'[p].subjects = None)
        => /\ err'[p] = Some(InvalidInput("No fields to update"))
           /\ pc'[p] = "ucatch" /\ loc'[p].written = {}
           /\ Committed' = Committed

\* A fine request without a student id or a month is handed to next() with
\* InvalidInput: no transaction is started and nothing is written.
C17_RejectsMissingIdOrMonth(p) ==
    (log'[p] # log[p] /\ log'[p] = <<Event("next", 400)>>)
        => /\ Committed' = Committed
           /\ tx'[p] = tx[p] /\ ~tx[p]
           /\ ops'[p] = ops[p] /\ pc'[p] = "idle"

\* The catch block of a request that threw a validation error leaves
\* every committed document as it is.
C17_CatchWritesNothing(p) ==
    (/\ pc[p] \in {"catch", "ucatch"} /\ pc'[p] = "idle"
     /\ err[p] # None /\ err[p][1] \in ValidationErrors)
        => /\ Committed' = Committed
           /\ ~Includes(log'[p], Event("commitTransaction", 0))

\* C17: validation errors are detected before any write: a mark whose
\* months is neither a string nor a sequence, an update with no field to
\* update, and a fine without a student id or a month each fail with
\* InvalidInput without having written to a Student, class, Subject or
\* FeePayment document.
C17_ValidationBeforeWrite ==
    [][\A p \in Procs :
          /\ C17_ReadsMonthsOfOtherType(p)
          /\ C17_ReadsNoFields(p)
          /\ C17_RejectsMissingIdOrMonth(p)
          /\ C17_CatchWritesNothing(p)]_vars

\* An update that gives no field is about to run its catch block, for a
\* registered student.
C17_Witness ==
    \E p \in Procs :
        /\ pc[p] = "ucatch" /\ req[p].op = "update"
        /\ err[p] = Some(InvalidInput("No fields to update"))
        /\ student[req[p].studentId] # None

-----------------------------------------------------------------------------
(* C18 *)

\* The record of (s, m) after the step.
RecordAfter(studentId, month) ==
    FindOne(feePayment', studentId, month)

\* The commit of a single-month mark: lateFine is false; finePaid is true
\* for "paid", and for "not paid" what it was (on an existing record) or
\* what the schema gives a new record.
C18_SingleCommit(p) ==
    (Commits(p) /\ IsSingleMark(req[p]))
        => LET s      == req[p].student
               m      == req[p].months[1]
               before == Record(s, m)
               after  == RecordAfter(s, m)
           IN  /\ after # None
               /\ after[1].lateFine = FALSE
               /\ req[p].status = "paid" => after[1].finePaid = TRUE
               /\ req[p].status = "not paid"
                     => after[1].finePaid =
                            IF before = None
                            THEN FeePaymentDefaults.finePaid
                            ELSE before[1].finePaid

\* The commit of a bulk mark: on every listed month lateFine is false and
\* finePaid is true, whatever the status.
C18_BulkCommit(p) ==
    (Commits(p) /\ IsBulkMark(req[p]))
        => \A i \in DOMAIN req[p].months :
              LET after == RecordAfter(req[p].student, req[p].months[i])
              IN  /\ after # None
                  /\ after[1].lateFine = FALSE
                  /\ after[1].finePaid = TRUE

\* C18: a successful single-month mark sets finePaid = true only when the
\* status is "paid" and leaves finePaid as it was when the status is
\* "not paid"; a successful bulk mark sets finePaid = true on every listed
\* month whatever the status; both set lateFine = false whatever the
\* status.
C18_FinePaidRule ==
    [][\A p \in Procs : C18_SingleCommit(p) /\ C18_BulkCommit(p)]_vars

\* A single-month "not paid" mark is about to commit on a record whose
\* fine is paid and which carries the fine flag no more.
C18_Witness ==
    \E p \in Procs :
        /\ pc[p] = "commit" /\ IsSingleMark(req[p]) /\ ops[p] # <<>>
        /\ req[p].status = "not paid"
        /\ Record(req[p].student, req[p].months[1]) # None
        /\ Record(req[p].student, req[p].months[1])[1].finePaid

-----------------------------------------------------------------------------
(* C19 *)

\* The commit of a single-month mark leaves isAdvancePayment true when the
\* caller passed the flag or the month begins after the current date, and
\* false otherwise.
C19_SingleCommit(p) ==
    (Commits(p) /\ IsSingleMark(req[p]))
        => LET after == RecordAfter(req[p].student, req[p].months[1])
           IN  after[1].isAdvancePayment
                   = IsFutureMonth(req[p].months[1], req[p].isAdvancePayment,
                                   req[p].now)

\* The commit of a bulk mark leaves isAdvancePayment, on every listed
\* month, as the caller's flag says.
C19_BulkCommit(p) ==
    (Commits(p) /\ IsBulkMark(req[p]))
        => \A i \in DOMAIN req[p].months :
              RecordAfter(req[p].student, req[p].months[i])[1].isAdvancePayment
                  = req[p].isAdvancePayment

\* C19: after a successful single-month mark the record's isAdvancePayment
\* is true if the caller passed the flag or the first day of the month in
\* the current year is after the current date, and false otherwise,
\* whatever the record held before; in bulk mode only the caller's flag
\* decides it.
C19_AdvanceFlag ==
    [][\A p \in Procs : C19_SingleCommit(p) /\ C19_BulkCommit(p)]_vars

-----------------------------------------------------------------------------
(* C20 *)

\* How many times a log records the call.
Calls(events, name) ==
    Cardinality({i \in DOMAIN events : events[i].ev = name})

\* Slot p takes the last step of a request that started a transaction.
Exits(p) ==
    /\ pc[p] # "idle" /\ pc'[p] = "idle"
    /\ Includes(log'[p], StartTransaction)

\* On the last step of a request its transaction has been ended by one
\* call, a commit or an abort, its session has been ended once, and no
\* transaction is left open.
C20_ExitEndsTransaction(p) ==
    Exits(p)
        => /\ Calls(log'[p], "commitTransaction")
                 + Calls(log'[p], "abortTransaction") = 1
           /\ Calls(log'[p], "abortTransactionThrows") = 0
           /\ Calls(log'[p], "endSession") = 1
           /\ ~tx'[p]

\* C20: on every exit path of a registration, an update, a mark and a fine
\* that started a transaction (success, thrown domain error, store error)
\* the transaction is ended exactly once, committed or aborted and never
\* both, and its session is ended; no path leaves a transaction open.
C20_TransactionLifetime ==
    [][\A p \in Procs : C20_ExitEndsTransaction(p)]_vars

-----------------------------------------------------------------------------
(* C21 *)

\* The call at position j of the log ended the transaction: a commit, an
\* abort, or a commit that the store refused.
EndsTransaction(events, j) ==
    events[j].ev \in {"commitTransaction", "abortTransaction"}

\* The statuses of the success responses (200; 201 for a registration);
\* every other response comes from a catch block.
SuccessStatuses ==
    {200, 201}

\* Every response in the log of a request that started a transaction comes
\* after the call that ended the transaction: a success response after a
\* commit the store accepted, an error response after an abort, or after
\* a commit the store refused, which leaves no transaction to abort.
C21_EndsBeforeResponse ==
    \A p \in Procs :
        \A i \in DOMAIN log[p] :
            (log[p][i].ev = "send" /\ Includes(log[p], StartTransaction))
                => \E j \in 1..(i - 1) :
                      IF log[p][i].status \in SuccessStatuses
                      THEN log[p][j] = Event("commitTransaction", 0)
                      ELSE /\ EndsTransaction(log[p], j)
                           /\ log[p][j] # Event("commitTransaction", 0)

\* The step that sends a response leaves the request's transaction closed.
C21_NoResponseInTransaction(p) ==
    Len(Responses(log'[p])) > Len(Responses(log[p])) => ~tx'[p]

\* C21: in every failing execution of a workflow that started a
\* transaction the abort happens before the error response is sent, in
\* every successful one the commit happens before the success response,
\* and no response is sent while the transaction is open.
C21_AbortBeforeResponse ==
    /\ []C21_EndsBeforeResponse
    /\ [][\A p \in Procs : C21_NoResponseInTransaction(p)]_vars

\* A fee request that failed inside its transaction has answered, with
\* records in the collection: its log shows the abort and then the error
\* response.
C21_Witness ==
    \E p \in Procs :
        /\ pc[p] = "idle" /\ feePayment # EmptyBag
        /\ Len(log[p]) = 4
        /\ log[p][2] = Event("abortTransaction", 0)
        /\ log[p][4].ev = "send" /\ log[p][4].status \notin SuccessStatuses

-----------------------------------------------------------------------------
(* C22 *)

\* No step lowers the lateFineAmount of a record, removes a record, or
\* changes a lateFineAmount that is not 0.
C22_NeverLowered ==
    feePayment' # feePayment
        => \A d \in BagToSet(feePayment) :
              LET after == RecordAfter(d.student, d.month)
              IN  /\ after # None
                  /\ after[1].lateFineAmount >= d.lateFineAmount
                  /\ d.lateFineAmount # 0
                        => after[1].lateFineAmount = d.lateFineAmount

\* The commit of a mark request leaves the lateFineAmount of every record
\* as it was.
C22_MarkKeepsAmount(p) ==
    (Commits(p) /\ req[p].op = "mark")
        => \A d \in BagToSet(feePayment) :
              RecordAfter(d.student, d.month)[1].lateFineAmount = d.lateFineAmount

\* C22: a mark never changes lateFineAmount and no operation lowers it:
\* over any sequence of marks and fines the lateFineAmount of a record is
\* non-decreasing, and once it is not 0 it never changes again, also when
\* the month is paid, then marked "not paid" and fined again.
C22_FineAmountMonotone ==
    [][C22_NeverLowered /\ \A p \in Procs : C22_MarkKeepsAmount(p)]_vars

\* A fine request is about to commit on a record that was fined, paid and
\* marked "not paid" again: it has a fine amount, its fine counts as paid
\* and its status is "not paid".
C22_Witness ==
    \E p \in Procs :
        /\ pc[p] = "commit" /\ IsImpose(req[p]) /\ ops[p] # <<>>
        /\ LET before == Record(req[p].studentId[1], req[p].month[1])
           IN  /\ before # None
               /\ before[1].status = "not paid"
               /\ before[1].finePaid
               /\ before[1].lateFineAmount # 0

-----------------------------------------------------------------------------
(* C23 *)

\* C23: in every reachable state, after any sequence and interleaving of
\* mark and fine requests, no FeePayment record has status "paid" together
\* with lateFine true, also when a payment and a fine on the same
\* (student, month) run concurrently.
C23_PaidHasNoFine ==
    \A d \in BagToSet(feePayment) : ~(d.status = "paid" /\ d.lateFine)

\* A fine request read its month as unpaid, a concurrent payment of the
\* month committed, and the store refused the fine's write: the fine is
\* about to run its catch block on a paid record.
C23_Witness ==
    \E p \in Procs :
        /\ pc[p] = "catch" /\ IsImpose(req[p]) /\ tx[p]
        /\ err[p] \in {Some(WriteConflictError), Some(DuplicateKeyError)}
        /\ LET d == Record(req[p].studentId[1], req[p].month[1])
           IN  d # None /\ d[1].status = "paid"

-----------------------------------------------------------------------------
(* C24 *)

\* No record has an outstanding fine that counts as paid.
C24_NoPaidOutstandingFine ==
    \A d \in BagToSet(feePayment) : ~(d.lateFine /\ d.finePaid)

\* The commit of a fine request leaves its record with lateFine true and
\* finePaid false.
C24_FineCommit(p) ==
    (Commits(p) /\ IsImpose(req[p]))
        => LET after == RecordAfter(req[p].studentId[1], req[p].month[1])
           IN  /\ after # None
               /\ after[1].lateFine = TRUE
               /\ after[1].finePaid = FALSE

\* C24: in every reachable state, after any sequence and interleaving of
\* mark and fine requests, no FeePayment record has lateFine true together
\* with finePaid true; every successful fine leaves finePaid false, also
\* when it skips writing finePaid because the record it read had finePaid
\* false.
C24_FineNotPaid ==
    /\ []C24_NoPaidOutstandingFine
    /\ [][\A p \in Procs : C24_FineCommit(p)]_vars

\* A fine request is about to commit an update that does not write
\* finePaid: the record it read had finePaid false.
C24_Witness ==
    \E p \in Procs :
        /\ pc[p] = "commit" /\ IsImpose(req[p]) /\ ops[p] # <<>>
        /\ loc[p].existingPayment # None
        /\ loc[p].existingPayment[1].finePaid = FALSE
        /\ "finePaid" \notin DOMAIN ops[p][1].update.set

-----------------------------------------------------------------------------
(* C25 *)

\* On the last step of a registration, a mark or a fine the handler has
\* called res.status(...).json(...) once.
C25_ExitAnswersOnce(p) ==
    (Exits(p) /\ req[p].op \in {"register", "mark", "impose"})
        => Len(Responses(log'[p])) = 1

\* C25: every invocation of a registration, a mark and a fine sends
\* exactly one response on every path, the duplicate-key path of the error
\* handler included: never a second response after the Conflict response,
\* and never none.
C25_ExactlyOneResponse ==
    [][\A p \in Procs : C25_ExitAnswersOnce(p)]_vars

====
